---- MODULE Spec2Model ----
(***************************************************************************)
(* Model of the adjustment engine of gdhi_adj: imputation of flagged       *)
(* years (calc_adjustment.py) and the apportionment stages                 *)
(* (apportion_adjustment.py).                                              *)
(*                                                                         *)
(* A DataFrame is a sequence of rows, a row a record whose fields are the  *)
(* columns.  A float is an exact rational <<n, d>> in lowest terms with    *)
(* d > 0; the non-finite floats are <<0, 0>> (NaN), <<1, 0>> (+inf) and    *)
(* <<-1, 0>> (-inf).  Rounding of double precision is not modelled.        *)
(***************************************************************************)
EXTENDS Integers, Sequences, FiniteSets, TLC

VARIABLES
    df,                \* the table handed from stage to stage
    imputed_df,        \* the table of flagged rows with their imputed value
    pc,                \* position of the run
    err,               \* the exception raised, or NoErr
    accept_negatives,  \* config["user_settings"]["accept_negatives"]
    start_year,        \* start_year argument of calc_imputed_val
    end_year,          \* end_year argument of calc_imputed_val
    rollback_year_start,  \* config["user_settings"]["rollback_year_start"]
    rollback_year_end,    \* config["user_settings"]["rollback_year_end"]
    output             \* the wide table run_adjustment writes out

vars ==
    <<pc, df, imputed_df, err, accept_negatives, start_year, end_year,
      rollback_year_start, rollback_year_end, output>>

(***************************************************************************)
(* Floats                                                                  *)
(***************************************************************************)
AbsInt(n) == IF n < 0 THEN -n ELSE n

Sgn(n) == IF n > 0 THEN 1 ELSE IF n < 0 THEN -1 ELSE 0

RECURSIVE GCD(_, _)
GCD(a, b) == IF b = 0 THEN a ELSE GCD(b, a % b)

\* the float n/d, d # 0, in lowest terms
Rat(n, d) ==
    LET g == GCD(AbsInt(n), AbsInt(d))
    IN  <<Sgn(d) * (n \div g), AbsInt(d) \div g>>

FromInt(n) == <<n, 1>>

NaN == <<0, 0>>

Zero == <<0, 1>>

isna(x) == x = NaN

notna(x) == x # NaN

IsFinite(x) == x[2] # 0

Add(a, b) ==
    IF isna(a) \/ isna(b) THEN NaN
    ELSE IF ~IsFinite(a) /\ ~IsFinite(b) THEN (IF a = b THEN a ELSE NaN)
    ELSE IF ~IsFinite(a) THEN a
    ELSE IF ~IsFinite(b) THEN b
    ELSE LET g == GCD(a[2], b[2])
         IN  Rat(a[1] * (b[2] \div g) + b[1] * (a[2] \div g),
                 (a[2] \div g) * b[2])

Neg(a) == <<-a[1], a[2]>>

Sub(a, b) == Add(a, Neg(b))

\* common factors are cancelled before multiplying
Mul(a, b) ==
    IF ~IsFinite(a) \/ ~IsFinite(b) THEN <<Sgn(a[1]) * Sgn(b[1]), 0>>
    ELSE LET g1 == GCD(AbsInt(a[1]), b[2])
             g2 == GCD(AbsInt(b[1]), a[2])
         IN  Rat((a[1] \div g1) * (b[1] \div g2),
                 (a[2] \div g2) * (b[2] \div g1))

Div(a, b) ==
    IF isna(a) \/ isna(b) THEN NaN
    ELSE IF ~IsFinite(b) THEN (IF IsFinite(a) THEN Zero ELSE NaN)
    ELSE IF ~IsFinite(a) THEN <<a[1] * (IF b[1] < 0 THEN -1 ELSE 1), 0>>
    ELSE IF b[1] = 0 THEN <<Sgn(a[1]), 0>>
    ELSE Mul(a, <<Sgn(b[1]) * b[2], AbsInt(b[1])>>)

Abs(a) == <<AbsInt(a[1]), a[2]>>

\* a < b as floats: false when either side is NaN
Lt(a, b) ==
    /\ notna(a) /\ notna(b)
    /\ a # b
    /\ IF ~IsFinite(a) THEN a[1] < 0
       ELSE IF ~IsFinite(b) THEN b[1] > 0
       ELSE LET g == GCD(a[2], b[2])
            IN  a[1] * (b[2] \div g) < b[1] * (a[2] \div g)

Gt(a, b) == Lt(b, a)

RECURSIVE SumSeq(_)
SumSeq(s) == IF s = <<>> THEN Zero ELSE Add(Head(s), SumSeq(Tail(s)))

RECURSIVE MinSeq(_)
MinSeq(s) ==
    IF Len(s) = 1 THEN s[1]
    ELSE LET m == MinSeq(Tail(s)) IN IF Lt(s[1], m) THEN s[1] ELSE m

\* pandas "sum": missing values are skipped, the empty sum is 0
pd_sum(s) == SumSeq(SelectSeq(s, notna))

\* pandas "min": missing values are skipped, the empty minimum is missing
pd_min(s) ==
    LET v == SelectSeq(s, notna) IN IF v = <<>> THEN NaN ELSE MinSeq(v)

(***************************************************************************)
(* DataFrames                                                              *)
(***************************************************************************)
Columns(d) == IF d = <<>> THEN {} ELSE DOMAIN d[1]

Column(d, col) == [i \in DOMAIN d |-> d[i][col]]

SameKey(r, s, by) == \A c \in by : r[c] = s[c]

\* the rows of d in the group of row r
Group(d, r, by) == SelectSeq(d, LAMBDA s : SameKey(r, s, by))

\* d.groupby(by)[col].transform("sum"), at the row r
transform_sum(d, r, by, col) == pd_sum(Column(Group(d, r, by), col))

\* d.groupby(by)[col].transform("min"), at the row r
transform_min(d, r, by, col) == pd_min(Column(Group(d, r, by), col))

\* d with the column col set to vals, row by row; the rows are computed
\* once
Assign(d, col, vals) ==
    [i \in DOMAIN d |-> (col :> vals[i]) @@ d[i]] \o <<>>

\* the list is looked at in its first place only
InList_first(y, list) == list # <<>> /\ list[1] = y

InList(y, list) == \E k \in DOMAIN list : list[k] = y

LadYear == {"lad_code", "year"}

NoErr == [type |-> "none", msg |-> ""]

ValueError(msg) == [type |-> "ValueError", msg |-> msg]

KeyError(col) == [type |-> "KeyError", msg |-> col]

\* the lad codes of the model in Python's string order
LadCodes == <<"E01", "E02">>

CodeRank(c) == CHOOSE k \in DOMAIN LadCodes : LadCodes[k] = c

\* row r sorts no later than row s under sort_values(["lad_code", "year"])
LadYearLe(r, s) ==
    \/ CodeRank(r.lad_code) < CodeRank(s.lad_code)
    \/ r.lad_code = s.lad_code /\ r.year <= s.year

RECURSIVE InsertSorted(_, _)
InsertSorted(r, s) ==
    IF s = <<>> THEN <<r>>
    ELSE IF LadYearLe(r, Head(s)) THEN <<r>> \o s
    ELSE <<Head(s)>> \o InsertSorted(r, Tail(s))

\* d.sort_values(by=["lad_code", "year"]): stable, ascending
RECURSIVE sort_values(_)
sort_values(d) ==
    IF d = <<>> THEN <<>>
    ELSE InsertSorted(Head(d), sort_values(Tail(d)))

\* d.drop_duplicates(): the first occurrence of each row is kept
RECURSIVE drop_duplicates(_)
drop_duplicates(d) ==
    IF d = <<>> THEN <<>>
    ELSE LET init == drop_duplicates(SubSeq(d, 1, Len(d) - 1))
             last == d[Len(d)]
         IN  IF \E k \in DOMAIN init : init[k] = last THEN init
             ELSE Append(init, last)

(***************************************************************************)
(* transform_helpers.sum_match_check                                       *)
(***************************************************************************)
\* TRUE when no group's sums of the two columns differ by more than the
\* tolerance, that is when sum_match_check returns without raising
sum_match_check(d, by, unadjusted_col, adjusted_col, sum_tolerance) ==
    \A i \in DOMAIN d :
        ~Gt(Abs(Sub(transform_sum(d, d[i], by, unadjusted_col),
                    transform_sum(d, d[i], by, adjusted_col))),
            sum_tolerance)

SumCheckError == ValueError("Adjustment check failed")

(***************************************************************************)
(* apportion_adjustment.calc_non_outlier_proportions                       *)
(***************************************************************************)
\* r["year"] in r["year_to_adjust"]
mask(r) == InList(r.year, r.year_to_adjust)

lad_total(d, r) == transform_sum(d, r, LadYear, "con_gdhi")

\* the total taken over all rows, the mask left out
non_outlier_total_unmasked(d, r) == transform_sum(d, r, LadYear, "con_gdhi")

non_outlier_total(d, r) ==
    IF mask(r) THEN NaN
    ELSE transform_sum(SelectSeq(d, LAMBDA s : ~mask(s)), r, LadYear,
                       "con_gdhi")

zero_mask(r) == r.non_outlier_total = Zero

\* the list without drop_duplicates
bad_list_repeated(d) ==
    LET bad == SelectSeq(d, zero_mask)
        keys == [i \in DOMAIN bad |->
                    [lad_code |-> bad[i].lad_code, year |-> bad[i].year]]
        sorted == sort_values(keys)
    IN  [i \in DOMAIN sorted |-> <<sorted[i].lad_code, sorted[i].year>>]

\* the (lad_code, year) tuples listed by the error message
bad_list(d) ==
    LET bad == SelectSeq(d, zero_mask)
        keys == [i \in DOMAIN bad |->
                    [lad_code |-> bad[i].lad_code, year |-> bad[i].year]]
        sorted == sort_values(drop_duplicates(keys))
    IN  [i \in DOMAIN sorted |-> <<sorted[i].lad_code, sorted[i].year>>]

gdhi_proportion(r) == Div(r.con_gdhi, r.non_outlier_total)

\* the table as the function leaves it, and the error it raises, if any
calc_non_outlier_proportions(d) ==
    LET d1 == Assign(d, "lad_total", [i \in DOMAIN d |-> lad_total(d, d[i])])
        d2 == Assign(d1, "non_outlier_total",
                     [i \in DOMAIN d1 |-> non_outlier_total(d1, d1[i])])
    IN  IF \E i \in DOMAIN d2 : zero_mask(d2[i])
        THEN [df |-> d2,
              err |-> [type |-> "ValueError",
                       msg |-> "Non-outlier total check failed",
                       groups |-> bad_list(d2)]]
        ELSE [df |-> Assign(d2, "gdhi_proportion",
                     [i \in DOMAIN d2 |-> gdhi_proportion(d2[i])]),
              err |-> NoErr]

(***************************************************************************)
(* apportion_adjustment.apportion_adjustment                               *)
(***************************************************************************)
\* the merge with how="inner": the rows of d without an imputed row are
\* left out
merge_imputed_inner(d, imp) ==
    LET m == SelectSeq(d, LAMBDA r :
                 \E k \in DOMAIN imp :
                     SameKey(r, imp[k], {"lsoa_code", "year"}))
    IN  [i \in DOMAIN m |->
            LET k == CHOOSE j \in DOMAIN imp :
                         SameKey(m[i], imp[j], {"lsoa_code", "year"})
            IN  ("imputed_gdhi" :> imp[k].imputed_gdhi) @@ m[i]]

\* d.merge(imp[["lsoa_code", "year", "imputed_gdhi"]], how="left")
RECURSIVE merge_imputed(_, _)
merge_imputed(d, imp) ==
    IF d = <<>> THEN <<>>
    ELSE LET r == Head(d)
             m == SelectSeq(imp, LAMBDA s : SameKey(r, s, {"lsoa_code", "year"}))
             joined == IF m = <<>> THEN <<("imputed_gdhi" :> NaN) @@ r>>
                       ELSE [k \in DOMAIN m |->
                                ("imputed_gdhi" :> m[k].imputed_gdhi) @@ r]
         IN  joined \o merge_imputed(Tail(d), imp)

\* the total with the imputed values left in
adjusted_total_unreduced(d, r) == r.lad_total

adjusted_total(d, r) ==
    Sub(r.lad_total, transform_sum(d, r, LadYear, "imputed_gdhi"))

adjusted_con_gdhi(r) ==
    IF notna(r.imputed_gdhi) THEN r.imputed_gdhi
    ELSE Mul(r.gdhi_proportion, r.adjusted_total)

\* the check with a tolerance of 1e-3
adjusted_sum_check_loose(d) ==
    sum_match_check(d, LadYear, "con_gdhi", "adjusted_con_gdhi",
                    Rat(1, 1000))

adjusted_sum_check(d) ==
    sum_match_check(d, LadYear, "con_gdhi", "adjusted_con_gdhi",
                    Rat(1, 1000000))

apportion_adjustment(d, imp) ==
    LET d1 == merge_imputed(d, imp)
        d2 == Assign(d1, "adjusted_total",
                     [i \in DOMAIN d1 |-> adjusted_total(d1, d1[i])])
        d3 == Assign(d2, "adjusted_con_gdhi",
                     [i \in DOMAIN d2 |-> adjusted_con_gdhi(d2[i])])
    IN  IF adjusted_sum_check(d3) THEN [df |-> d3, err |-> NoErr]
        ELSE [df |-> d, err |-> SumCheckError]

(***************************************************************************)
(* apportion_adjustment.apportion_negative_adjustment                      *)
(***************************************************************************)
\* the minimum of the whole column, the grouping left out
min_adjusted_gdhi_ungrouped(d, r) == pd_min(Column(d, "adjusted_con_gdhi"))

min_adjusted_gdhi(d, r) ==
    transform_min(d, r, LadYear, "adjusted_con_gdhi")

abs_adjustment_val(r) ==
    IF Lt(r.min_adjusted_gdhi, Zero) THEN Abs(r.min_adjusted_gdhi) ELSE Zero

over_adjusted_gdhi(r) == Add(r.adjusted_con_gdhi, r.abs_adjustment_val)

\* groupby(...)["over_adjusted_gdhi"].transform(lambda x: x / x.sum())
\*     * adjusted_df["lad_total"]
readjusted_con_gdhi(d, r) ==
    Mul(Div(r.over_adjusted_gdhi,
            transform_sum(d, r, LadYear, "over_adjusted_gdhi")),
        r.lad_total)

\* the check made on the values before they are renormalised
negative_value_check_over(d) ==
    ~\E i \in DOMAIN d : Lt(d[i].over_adjusted_gdhi, Zero)

\* TRUE when no readjusted value is negative
negative_value_check(d) ==
    ~\E i \in DOMAIN d : Lt(d[i].readjusted_con_gdhi, Zero)

readjusted_sum_check(d) ==
    sum_match_check(d, LadYear, "con_gdhi", "readjusted_con_gdhi",
                    Rat(1, 1000000))

apportion_negative_adjustment(d) ==
    LET d1 == Assign(d, "min_adjusted_gdhi",
                     [i \in DOMAIN d |-> min_adjusted_gdhi(d, d[i])])
        d2 == Assign(d1, "abs_adjustment_val",
                     [i \in DOMAIN d1 |-> abs_adjustment_val(d1[i])])
        d3 == Assign(d2, "over_adjusted_gdhi",
                     [i \in DOMAIN d2 |-> over_adjusted_gdhi(d2[i])])
        d4 == Assign(d3, "readjusted_con_gdhi",
                     [i \in DOMAIN d3 |-> readjusted_con_gdhi(d3, d3[i])])
    IN  IF ~negative_value_check(d4)
        THEN [df |-> d, err |-> ValueError("Negative value check failed")]
        ELSE IF ~readjusted_sum_check(d4)
        THEN [df |-> d, err |-> SumCheckError]
        ELSE [df |-> sort_values(d4), err |-> NoErr]

(***************************************************************************)
(* apportion_adjustment.apportion_rollback_years                           *)
(***************************************************************************)
MaxOf(S) == CHOOSE m \in S : \A x \in S : x <= m

\* the rows of the first rollback-flagged year instead of the last
max_rollback_rows_first(d) ==
    LET flagged == {d[i].year : i \in {j \in DOMAIN d : d[j].rollback_flag}}
    IN  IF flagged = {} THEN <<>>
        ELSE SelectSeq(d, LAMBDA s : \A y \in flagged : s.year <= y)

\* the rows of d whose year is the last rollback-flagged year; none when
\* no row is flagged (the maximum is then NaN, which equals no year)
max_rollback_rows(d) ==
    LET flagged == {d[i].year : i \in {j \in DOMAIN d : d[j].rollback_flag}}
    IN  IF flagged = {} THEN <<>>
        ELSE SelectSeq(d, LAMBDA s : s.year = MaxOf(flagged))

\* adjusted_df["lsoa_code"].map(lsoa_max_rollback_gdhi), at the row r
lsoa_max_rollback_gdhi(d, r) ==
    LET g == Group(max_rollback_rows(d), r, {"lsoa_code"})
    IN  IF g = <<>> THEN NaN ELSE pd_min(Column(g, "readjusted_con_gdhi"))

\* adjusted_df["lad_code"].map(lad_max_rollback_sums), at the row r
lad_max_rollback_sums(d, r) ==
    LET g == Group(max_rollback_rows(d), r, {"lad_code"})
    IN  IF g = <<>> THEN NaN ELSE pd_sum(Column(g, "readjusted_con_gdhi"))

rollback_con_gdhi(d, r) ==
    IF r.rollback_flag
    THEN Mul(r.lad_total,
             Div(lsoa_max_rollback_gdhi(d, r), lad_max_rollback_sums(d, r)))
    ELSE r.readjusted_con_gdhi

rollback_sum_check(d) ==
    sum_match_check(d, LadYear, "con_gdhi", "rollback_con_gdhi",
                    Rat(1, 1000000))

apportion_rollback_years(d) ==
    IF "readjusted_con_gdhi" \notin Columns(d)
    THEN [df |-> d, err |-> KeyError("readjusted_con_gdhi")]
    ELSE LET d1 == Assign(d, "rollback_con_gdhi",
                          [i \in DOMAIN d |-> rollback_con_gdhi(d, d[i])])
         IN  IF rollback_sum_check(d1) THEN [df |-> d1, err |-> NoErr]
             ELSE [df |-> d, err |-> SumCheckError]

(***************************************************************************)
(* transform_helpers.ensure_list and increment_until_not_in                *)
(***************************************************************************)
\* a raw year_to_adjust cell: None, a scalar year, or a list, tuple or array
None == [kind |-> "None"]

Scalar(y) == [kind |-> "scalar", value |-> y]

List(l) == [kind |-> "list", items |-> l]

Tuple(l) == [kind |-> "tuple", items |-> l]

\* the list (a sequence of years) a raw cell stands for
ensure_list(x) ==
    IF x.kind = "None" THEN <<>>
    ELSE IF x.kind = "scalar" THEN <<x.value>>
    ELSE x.items

\* the first year from year on, stepping up or down, that is not in list,
\* or the first year beyond limit
RECURSIVE increment_until_not_in(_, _, _, _)
increment_until_not_in(year, list, limit, is_increasing) ==
    IF is_increasing
    THEN IF InList(year, list) /\ year <= limit
         THEN increment_until_not_in(year + 1, list, limit, is_increasing)
         ELSE year
    ELSE IF InList(year, list) /\ year >= limit
         THEN increment_until_not_in(year - 1, list, limit, is_increasing)
         ELSE year

(***************************************************************************)
(* calc_adjustment.calc_imputed_val                                        *)
(***************************************************************************)
RECURSIVE Flatten(_)
Flatten(ss) == IF ss = <<>> THEN <<>> ELSE Head(ss) \o Flatten(Tail(ss))

\* left.merge(lookup.rename(columns={"year": key, "con_gdhi": val}),
\*            on=["lsoa_code", key], how="left")
\* where the key column of left holds floats (a missing key matches no year)
merge_lookup(left, lookup, key, val) ==
    Flatten([i \in DOMAIN left |->
        LET r == left[i]
            m == SelectSeq(lookup, LAMBDA s : /\ s.lsoa_code = r.lsoa_code
                                              /\ FromInt(s.year) = r[key])
        IN  IF m = <<>> THEN <<(val :> NaN) @@ r>>
            ELSE [k \in DOMAIN m |-> (val :> m[k].con_gdhi) @@ r]])

\* the year before the row's, whether flagged or not
prev_safe_year_unguarded(r, start) == FromInt(r.year - 1)

prev_safe_year(r, start) ==
    FromInt(increment_until_not_in(r.year, r.year_to_adjust, start, FALSE))

next_safe_year(r, end) ==
    FromInt(increment_until_not_in(r.year, r.year_to_adjust, end, TRUE))

\* the midpoint of the two safe values
interpolated_gdhi_midpoint(r) ==
    IF notna(r.prev_con_gdhi) /\ notna(r.next_con_gdhi)
    THEN Div(Add(r.prev_con_gdhi, r.next_con_gdhi), FromInt(2))
    ELSE NaN

\* the interpolation between the previous and the next safe year
interpolated_gdhi(r) ==
    IF notna(r.prev_con_gdhi) /\ notna(r.next_con_gdhi)
    THEN Add(Mul(Div(Sub(r.next_con_gdhi, r.prev_con_gdhi),
                     Sub(r.next_safe_year, r.prev_safe_year)),
                 Sub(FromInt(r.year), r.prev_safe_year)),
             r.prev_con_gdhi)
    ELSE NaN

additional_safe_year(r) ==
    IF isna(r.prev_con_gdhi) THEN Add(r.next_safe_year, FromInt(1))
    ELSE IF isna(r.next_con_gdhi) THEN Sub(r.prev_safe_year, FromInt(1))
    ELSE NaN

\* the extrapolation where only one side is available
extrapolated_gdhi(r) ==
    IF isna(r.imputed_gdhi) /\ notna(r.additional_con_gdhi)
    THEN IF isna(r.prev_con_gdhi)
         THEN Sub(r.next_con_gdhi,
                  Mul(Sub(r.additional_con_gdhi, r.next_con_gdhi),
                      Sub(r.next_safe_year, FromInt(r.year))))
         ELSE Add(r.prev_con_gdhi,
                  Mul(Sub(r.prev_con_gdhi, r.additional_con_gdhi),
                      Sub(FromInt(r.year), r.prev_safe_year)))
    ELSE r.imputed_gdhi

\* r without the columns cols
Drop(r, cols) == [c \in DOMAIN r \ cols |-> r[c]]

\* df as the function leaves it (year_to_adjust normalised in place) and
\* the imputed table it returns
calc_imputed_val(d, start, end) ==
    LET d1 == Assign(d, "year_to_adjust",
                     [i \in DOMAIN d |-> ensure_list(d[i].year_to_adjust)])
        i0 == SelectSeq(d1, mask)
        i1 == Assign(i0, "prev_safe_year",
                     [i \in DOMAIN i0 |-> prev_safe_year(i0[i], start)])
        i2 == merge_lookup(i1, d1, "prev_safe_year", "prev_con_gdhi")
        i3 == Assign(i2, "next_safe_year",
                     [i \in DOMAIN i2 |-> next_safe_year(i2[i], end)])
        i4 == merge_lookup(i3, d1, "next_safe_year", "next_con_gdhi")
        i5 == Assign(i4, "imputed_gdhi",
                     [i \in DOMAIN i4 |-> interpolated_gdhi(i4[i])])
        i6 == Assign(i5, "additional_safe_year",
                     [i \in DOMAIN i5 |-> additional_safe_year(i5[i])])
        i7 == merge_lookup(i6, d1, "additional_safe_year",
                           "additional_con_gdhi")
        i8 == Assign(i7, "imputed_gdhi",
                     [i \in DOMAIN i7 |-> extrapolated_gdhi(i7[i])])
    IN  [df |-> d1,
         imputed_df |->
             [i \in DOMAIN i8 |->
                 Drop(i8[i], {"additional_safe_year", "additional_con_gdhi"})]]

(***************************************************************************)
(* Inputs of a run                                                         *)
(***************************************************************************)
MaxCon == 1

\* the con_gdhi values of the generated tables
ConVals == {FromInt(v) : v \in -1 .. MaxCon}

\* the imputed values of the generated tables
ImputedVals == {NaN, FromInt(2)}

YearToAdjustVals == {<<>>, <<2000>>, <<2001>>, <<2000, 2001>>}

Row(lsoa, lad, year, con, yta, rb) ==
    [lsoa_code |-> lsoa, lad_code |-> lad, year |-> year, con_gdhi |-> con,
     year_to_adjust |-> yta, rollback_flag |-> rb]

ImputedRow(lsoa, year, imp) ==
    [lsoa_code |-> lsoa, year |-> year, imputed_gdhi |-> imp]

\* the flagged rows of d, each with the imputed value imp gives its index
ImputedFor(d, imp) ==
    LET idx == SelectSeq([i \in DOMAIN d |-> i], LAMBDA i : mask(d[i]))
    IN  [k \in DOMAIN idx |->
            ImputedRow(d[idx[k]].lsoa_code, d[idx[k]].year, imp[idx[k]])]

\* two entities of one lad over two years, sorted by (lsoa_code, year)
GenTable(con, yta, rb) ==
    <<Row("E1", "E01", 2000, con[1], yta[1], 1 \in rb),
      Row("E1", "E01", 2001, con[2], yta[1], 2 \in rb),
      Row("E2", "E01", 2000, con[3], yta[2], 3 \in rb),
      Row("E2", "E01", 2001, con[4], yta[2], 4 \in rb)>>

\* the rows flagged as rollback years: none, year 2000, E1 in 2000, E1 in
\* both years, all
RollbackPatterns == {{}, {1, 3}, {1}, {1, 2}, {1, 2, 3, 4}}

GenInputs ==
    {[df |-> GenTable(con, yta, rb),
      imputed_df |-> ImputedFor(GenTable(con, yta, rb), imp)] :
        con \in [1 .. 4 -> ConVals],
        yta \in {y \in [1 .. 2 -> YearToAdjustVals] : Len(y[2]) <= 1},
        rb \in RollbackPatterns, imp \in [1 .. 4 -> ImputedVals]}

\* test_apportion_adjustment.py and spec.md section 8: [3, 9, 8], the third
\* entity imputed to 5
EndToEndInput ==
    LET d == <<Row("E1", "E01", 2002, FromInt(3), <<>>, FALSE),
               Row("E2", "E01", 2002, FromInt(9), <<>>, FALSE),
               Row("E3", "E01", 2002, FromInt(8), <<2002>>, FALSE)>>
    IN  [df |-> d, imputed_df |-> <<ImputedRow("E3", 2002, FromInt(5))>>]

\* the negative elimination scenario: the apportioned values of the four
\* entities are [-0.5, 5.5, -1.0, 6.0] and their lad_total is 10
NegativesInput ==
    LET d == <<Row("E1", "E01", 2000, FromInt(-1), <<2000>>, FALSE),
               Row("E2", "E01", 2000, Rat(11, 2), <<>>, FALSE),
               Row("E3", "E01", 2000, Rat(-1, 2), <<2000>>, FALSE),
               Row("E4", "E01", 2000, FromInt(6), <<>>, FALSE)>>
    IN  [df |-> d,
         imputed_df |-> <<ImputedRow("E1", 2000, Rat(-1, 2)),
                          ImputedRow("E3", 2000, FromInt(-1))>>]

\* a group of one flagged entity whose imputed value differs from its
\* con_gdhi by off: the sums of the group differ by off
OffsetInput(off) ==
    LET d == <<Row("E1", "E01", 2001, FromInt(1), <<2001>>, FALSE),
               Row("E2", "E02", 2001, FromInt(1), <<>>, FALSE)>>
    IN  [df |-> d,
         imputed_df |-> <<ImputedRow("E1", 2001, Add(FromInt(1), off))>>]

\* a group of one entity with the value con
SingleInput(con) ==
    [df |-> <<Row("E1", "E01", 2000, con, <<>>, FALSE)>>, imputed_df |-> <<>>]

\* a group whose two entities are both flagged in the year and imputed to
\* their own value, 0
ZeroGroupInput ==
    LET d == <<Row("E1", "E01", 2000, Zero, <<2000>>, FALSE),
               Row("E2", "E01", 2000, Zero, <<2000>>, FALSE)>>
    IN  [df |-> d,
         imputed_df |-> <<ImputedRow("E1", 2000, Zero),
                          ImputedRow("E2", 2000, Zero)>>]

Inputs ==
    GenInputs \cup
    {EndToEndInput, NegativesInput, ZeroGroupInput,
     OffsetInput(Rat(1, 2000000)), OffsetInput(Rat(1, 10000)),
     SingleInput(Rat(-1, 2000000)), SingleInput(FromInt(-1))}

(***************************************************************************)
(* run_adjustment: the apportionment stages                                *)
(***************************************************************************)
Init ==
    /\ \E in \in Inputs : df = in.df /\ imputed_df = in.imputed_df
    /\ accept_negatives \in BOOLEAN
    /\ pc = "loaded"
    /\ err = NoErr
    /\ output = <<>>
    /\ start_year = 1900
    /\ end_year = 2100
    /\ rollback_year_start = 2010
    /\ rollback_year_end = 2014

\* the stage returned res: the run goes on to the position next, or stops
Step(res, next) ==
    /\ df' = res.df
    /\ err' = res.err
    /\ pc' = IF res.err = NoErr THEN next ELSE "raised"
    /\ UNCHANGED <<imputed_df, accept_negatives, start_year, end_year,
                   rollback_year_start, rollback_year_end, output>>

CalcNonOutlierProportions ==
    /\ pc = "loaded"
    /\ Step(calc_non_outlier_proportions(df), "proportioned")

ApportionAdjustment ==
    /\ pc = "proportioned"
    /\ Step(apportion_adjustment(df, imputed_df), "apportioned")

ApportionNegativeAdjustment ==
    /\ pc = "apportioned"
    /\ accept_negatives = FALSE
    /\ Step(apportion_negative_adjustment(df), "readjusted")

ApportionRollbackYears ==
    /\ \/ pc = "readjusted"
       \/ pc = "apportioned" /\ accept_negatives
    /\ Step(apportion_rollback_years(df), "rolled_back")

\* df.drop(columns=cols)
drop(d, cols) == [i \in DOMAIN d |-> Drop(d[i], cols)] \o <<>>

\* df.rename(columns={old: new})
rename(d, old, new) ==
    [i \in DOMAIN d |-> (new :> d[i][old]) @@ Drop(d[i], {old})] \o <<>>

\* run_adjustment: the columns of the final table; the column called
\* con_gdhi from here on is readjusted_con_gdhi when negatives are not
\* accepted and adjusted_con_gdhi when they are
final_columns(d, accept) ==
    LET d1 == IF accept = FALSE
              THEN rename(drop(d, {"adjusted_con_gdhi"}),
                          "readjusted_con_gdhi", "adjusted_con_gdhi")
              ELSE d
    IN  rename(drop(d1, {"con_gdhi", "imputed_gdhi"}),
               "adjusted_con_gdhi", "con_gdhi")

\* the lsoa codes of the model in Python's string order
EntityCodes == <<"E1", "E2", "E3", "E4">>

\* pivot_wide_final_dataframe: one row per entity, the con_gdhi of each of
\* its years under that year (the year columns are held as one function)
pivot_wide_final_dataframe(d) ==
    LET codes == SelectSeq(EntityCodes,
                           LAMBDA c : \E i \in DOMAIN d : d[i].lsoa_code = c)
        first(c) == d[CHOOSE i \in DOMAIN d : d[i].lsoa_code = c]
        rows(c) == {i \in DOMAIN d : d[i].lsoa_code = c}
    IN  [k \in DOMAIN codes |->
            [lsoa_code |-> codes[k],
             lad_code |-> first(codes[k]).lad_code,
             con_gdhi |->
                 [y \in {d[i].year : i \in rows(codes[k])} |->
                     d[CHOOSE i \in rows(codes[k]) : d[i].year = y].con_gdhi]
                 @@ <<>>]] \o <<>>

\* "Pivoting final DataFrame wide for exporting": the renaming and the
\* reshaping of the table that is written out
PivotWideFinal ==
    /\ pc = "rolled_back"
    /\ \E d1 \in {final_columns(df, accept_negatives)} :
           output' = pivot_wide_final_dataframe(d1)
    /\ pc' = "written"
    /\ UNCHANGED <<df, imputed_df, err, accept_negatives, start_year,
                   end_year, rollback_year_start, rollback_year_end>>

Next ==
    \/ CalcNonOutlierProportions
    \/ ApportionAdjustment
    \/ ApportionNegativeAdjustment
    \/ ApportionRollbackYears
    \/ PivotWideFinal

Spec == Init /\ [][Next]_vars

(***************************************************************************)
(* calc_imputed_val on its own                                             *)
(***************************************************************************)
NumYears == 6

SeriesYears == [k \in 1 .. NumYears |-> 1999 + k]

SeriesVals == {FromInt(10), FromInt(40)}

RECURSIVE Ascending(_, _)
\* the years of S from y on, in ascending order
Ascending(S, y) ==
    IF \A x \in S : x < y THEN <<>>
    ELSE IF y \in S THEN <<y>> \o Ascending(S, y + 1)
    ELSE Ascending(S, y + 1)

\* the raw year_to_adjust cells of the flagged entity
RawYearToAdjust ==
    {List(Ascending(S, 2000)) : S \in SUBSET {SeriesYears[k] : k \in 1 .. NumYears}}
    \cup {None, Scalar(2001), Tuple(<<2002, 2001>>), List(<<2001, 2001>>),
          List(<<1999, 2000>>),
          List(<<SeriesYears[NumYears], SeriesYears[NumYears] + 1>>)}

\* E1 carries the series con and the cell raw on each of its rows, and the
\* rollback flag in the years rb; E2 is an entity of the same lad that is
\* never flagged
SeriesTable(con, raw, rb) ==
    [k \in 1 .. NumYears |->
        Row("E1", "E01", SeriesYears[k], con[k], raw, SeriesYears[k] \in rb)]
    \o [k \in 1 .. NumYears |->
        Row("E2", "E01", SeriesYears[k], FromInt(7), None, FALSE)]

\* the defaults of calc_imputed_val, and the years of the data
YearRanges == {<<1900, 2100>>, <<SeriesYears[1], SeriesYears[NumYears]>>}

\* a series that lies on no line: 10, 40, 90, ...
RampSeries == [k \in 1 .. NumYears |-> FromInt(10 * k * k)]

\* the first three years of the series, as the years flagged as rollback
RollbackYears == {SeriesYears[k] : k \in 1 .. 3}

InitImpute ==
    /\ \E raw \in RawYearToAdjust :
           \/ \E con \in [1 .. NumYears -> SeriesVals] :
                  df = SeriesTable(con, raw, {})
           \/ df = SeriesTable(RampSeries, raw, RollbackYears)
    /\ \E yr \in YearRanges : start_year = yr[1] /\ end_year = yr[2]
    /\ imputed_df = <<>>
    /\ accept_negatives = FALSE
    /\ pc = "flagged"
    /\ err = NoErr
    /\ output = <<>>
    /\ rollback_year_start = 2010
    /\ rollback_year_end = 2014

CalcImputedVal ==
    /\ pc = "flagged"
    /\ LET res == calc_imputed_val(df, start_year, end_year)
       IN  df' = res.df /\ imputed_df' = res.imputed_df
    /\ pc' = "imputed"
    /\ UNCHANGED <<err, accept_negatives, start_year, end_year,
                   rollback_year_start, rollback_year_end, output>>

NextImpute == CalcImputedVal

SpecImpute == InitImpute /\ [][NextImpute]_vars

(***************************************************************************)
(* flag_preprocess.flag_rollback_years and its two callers                 *)
(***************************************************************************)
\* the window with the right bound left out
between_exclusive(y, left, right) == left <= y /\ y < right

\* Series.between(left, right), both bounds included
between(y, left, right) == left <= y /\ y <= right

rollback_mask(r) ==
    /\ \/ r.backward_pct_change = FromInt(1)
       \/ r.forward_pct_change = FromInt(1)
    /\ between(r.year, 2010, 2014)

flag_rollback_years(d) ==
    [i \in DOMAIN d |-> ("rollback_flag" :> rollback_mask(d[i])) @@ d[i]]

TypeError(msg) == [type |-> "TypeError", msg |-> msg]

RateRow(lsoa, year, bwd, frwd) ==
    [lsoa_code |-> lsoa, year |-> year, backward_pct_change |-> bwd,
     forward_pct_change |-> frwd]

\* the ratios of a row: undefined at the end of a series, exactly 1.0 on a
\* copied year, or another value
RatioVals == {NaN, FromInt(1), Rat(9, 10)}

RateYears == {2001, 2009, 2010, 2012, 2014, 2015}

\* test_flag_rollback_years
RollbackTestInput ==
    <<RateRow("E1", 2010, FromInt(1), FromInt(1)),
      RateRow("E1", 2014, Rat(9, 10), FromInt(1)),
      RateRow("E1", 2015, Rat(9, 10), FromInt(1)),
      RateRow("E2", 2001, FromInt(1), FromInt(1)),
      RateRow("E2", 2012, Rat(19, 20), Rat(21, 20)),
      RateRow("E2", 2013, FromInt(1), Rat(19, 20))>>

RateTables ==
    {<<RateRow("E1", y, b, f), RateRow("E2", 2012, Rat(19, 20), Rat(21, 20))>> :
        y \in RateYears, b \in RatioVals, f \in RatioVals}
    \cup {RollbackTestInput}

\* the configured rollback windows
RollbackWindows == {<<2010, 2014>>, <<2011, 2013>>, <<2009, 2015>>}

InitRollback ==
    /\ df \in RateTables
    /\ \E w \in RollbackWindows :
           rollback_year_start = w[1] /\ rollback_year_end = w[2]
    /\ imputed_df = <<>>
    /\ accept_negatives = FALSE
    /\ start_year = 1900
    /\ end_year = 2100
    /\ pc = "rates"
    /\ err = NoErr
    /\ output = <<>>

\* run_preprocessing: df = flag_rollback_years(df)
FlagRollbackYears ==
    /\ pc = "rates"
    /\ df' = flag_rollback_years(df)
    /\ pc' = "rollback_flagged"
    /\ UNCHANGED <<imputed_df, err, accept_negatives, start_year, end_year,
                   rollback_year_start, rollback_year_end, output>>

\* run_adjustment: df = flag_rollback_years(df, rollback_year_start=...,
\* rollback_year_end=...), a call the signature flag_rollback_years(df)
\* rejects
AdjustmentFlagRollbackYears ==
    /\ pc = "rates"
    /\ err' = TypeError("unexpected keyword argument rollback_year_start")
    /\ pc' = "raised"
    /\ UNCHANGED <<df, imputed_df, accept_negatives, start_year, end_year,
                   rollback_year_start, rollback_year_end, output>>

NextRollback == FlagRollbackYears \/ AdjustmentFlagRollbackYears

SpecRollback == InitRollback /\ [][NextRollback]_vars

(***************************************************************************)
(* create_master_flag, of flag_preprocess.py and of preprocess.py          *)
(***************************************************************************)
\* col.startswith(prefix), col[0:len(prefix)] == prefix
startswith(col, prefix) ==
    Len(col) >= Len(prefix) /\ SubSeq(col, 1, Len(prefix)) = prefix

z_score_cols(d) == {col \in Columns(d) : startswith(col, "z_")}

iqr_score_cols(d) == {col \in Columns(d) : startswith(col, "iqr_")}

\* df.groupby("lsoa_code").agg({col: "sum"}), at the entity lsoa
flag_count(d, lsoa, col) ==
    Cardinality({i \in DOMAIN d : d[i].lsoa_code = lsoa /\ d[i][col]})

\* (count[cols] >= 1).sum(axis=1), at the entity lsoa
flagged_cols(d, lsoa, cols) ==
    Cardinality({col \in cols : flag_count(d, lsoa, col) >= 1})

master_z_flag(d, lsoa) == flagged_cols(d, lsoa, z_score_cols(d)) >= 1

master_iqr_flag(d, lsoa) == flagged_cols(d, lsoa, iqr_score_cols(d)) >= 1

\* the master flag of the code that is commented out: both detectors
master_flag_both(r) == r.master_z_flag /\ r.master_iqr_flag

master_flag(r) == r.master_z_flag \/ r.master_iqr_flag

create_master_flag(d) ==
    LET d1 == Assign(d, "master_z_flag",
                     [i \in DOMAIN d |-> master_z_flag(d, d[i].lsoa_code)])
        d2 == Assign(d1, "master_iqr_flag",
                     [i \in DOMAIN d |-> master_iqr_flag(d, d[i].lsoa_code)])
    IN  Assign(d2, "master_flag", [i \in DOMAIN d2 |-> master_flag(d2[i])])

\* preprocess.py: the revision with the threshold of two flagged columns
preprocess_master_z_flag(d, lsoa) ==
    flagged_cols(d, lsoa, z_score_cols(d)) >= 2

preprocess_master_iqr_flag(d, lsoa) ==
    flagged_cols(d, lsoa, iqr_score_cols(d)) >= 2

preprocess_create_master_flag(d) ==
    LET d1 == Assign(d, "master_z_flag",
                     [i \in DOMAIN d |->
                         preprocess_master_z_flag(d, d[i].lsoa_code)])
        d2 == Assign(d1, "master_iqr_flag",
                     [i \in DOMAIN d |->
                         preprocess_master_iqr_flag(d, d[i].lsoa_code)])
    IN  Assign(d2, "master_flag", [i \in DOMAIN d2 |-> master_flag(d2[i])])

MaxFlagYears == 2

\* the flags of a row in the three columns of a detector (bkwd, frwd, raw)
FlagPatterns ==
    {<<FALSE, FALSE, FALSE>>, <<TRUE, FALSE, FALSE>>, <<FALSE, TRUE, FALSE>>,
     <<FALSE, FALSE, TRUE>>, <<TRUE, TRUE, FALSE>>}

FlagRow(lsoa, year, z, iqr) ==
    [lsoa_code |-> lsoa, year |-> year,
     z_bkwd_flag |-> z[1], z_frwd_flag |-> z[2], z_raw_flag |-> z[3],
     iqr_bkwd_flag |-> iqr[1], iqr_frwd_flag |-> iqr[2],
     iqr_raw_flag |-> iqr[3]]

\* test_create_master_flag
MasterTestInput ==
    <<FlagRow("E1", 2001, <<TRUE, TRUE, TRUE>>, <<FALSE, FALSE, FALSE>>),
      FlagRow("E1", 2002, <<FALSE, FALSE, FALSE>>, <<FALSE, FALSE, FALSE>>),
      FlagRow("E2", 2001, <<FALSE, FALSE, FALSE>>, <<FALSE, TRUE, TRUE>>),
      FlagRow("E2", 2002, <<FALSE, FALSE, FALSE>>, <<FALSE, FALSE, TRUE>>),
      FlagRow("E3", 2001, <<TRUE, FALSE, FALSE>>, <<FALSE, FALSE, TRUE>>),
      FlagRow("E3", 2002, <<TRUE, FALSE, FALSE>>, <<FALSE, FALSE, FALSE>>)>>

\* E1 over MaxFlagYears years with every pattern, and one row of E2
FlagTables ==
    {[k \in 1 .. MaxFlagYears |-> FlagRow("E1", 2000 + k, z[k], iqr[k])]
         \o <<FlagRow("E2", 2001, p, p)>> :
        z \in [1 .. MaxFlagYears -> FlagPatterns],
        iqr \in [1 .. MaxFlagYears -> FlagPatterns],
        p \in {<<FALSE, FALSE, FALSE>>, <<TRUE, TRUE, FALSE>>}}
    \cup {MasterTestInput}

InitMaster ==
    /\ df \in FlagTables
    /\ imputed_df = <<>>
    /\ accept_negatives = FALSE
    /\ start_year = 1900
    /\ end_year = 2100
    /\ rollback_year_start = 2010
    /\ rollback_year_end = 2014
    /\ pc = "scored"
    /\ err = NoErr
    /\ output = <<>>

\* run_preprocess.py: df = create_master_flag(df), of flag_preprocess.py
CreateMasterFlag ==
    /\ pc = "scored"
    /\ df' = create_master_flag(df)
    /\ pc' = "master_flagged"
    /\ UNCHANGED <<imputed_df, err, accept_negatives, start_year, end_year,
                   rollback_year_start, rollback_year_end, output>>

\* preprocess.py: df = create_master_flag(df), of preprocess.py
PreprocessCreateMasterFlag ==
    /\ pc = "scored"
    /\ df' = preprocess_create_master_flag(df)
    /\ pc' = "master_flagged_preprocess_py"
    /\ UNCHANGED <<imputed_df, err, accept_negatives, start_year, end_year,
                   rollback_year_start, rollback_year_end, output>>

NextMaster == CreateMasterFlag \/ PreprocessCreateMasterFlag

SpecMaster == InitMaster /\ [][NextMaster]_vars

(***************************************************************************)
(* preprocess.py: rate_of_change, calc_zscores, calc_iqr                   *)
(***************************************************************************)
LsoaCodes == <<"E1", "E2", "E3">>

LsoaRank(c) == CHOOSE k \in DOMAIN LsoaCodes : LsoaCodes[k] = c

\* the element of a singleton; Only({f(x) : x \in {e}}) is f(e) with e
\* computed once
Only(S) == CHOOSE x \in S : TRUE

\* r sorts strictly before s by ["lsoa_code", "year"]
LsoaYearBefore(r, s, ascending) ==
    LET lt == \/ LsoaRank(r.lsoa_code) < LsoaRank(s.lsoa_code)
              \/ /\ r.lsoa_code = s.lsoa_code
                 /\ r.year < s.year
        gt == \/ LsoaRank(r.lsoa_code) > LsoaRank(s.lsoa_code)
              \/ /\ r.lsoa_code = s.lsoa_code
                 /\ r.year > s.year
    IN  IF ascending THEN lt ELSE gt

\* the number of rows of d that sort before row i; rows that tie keep
\* their order
lsoa_year_rank(d, ascending) ==
    [i \in DOMAIN d |->
        Cardinality({j \in DOMAIN d :
                        \/ LsoaYearBefore(d[j], d[i], ascending)
                        \/ /\ ~LsoaYearBefore(d[i], d[j], ascending)
                           /\ j < i})] \o <<>>

\* the elements of a in the order of their ranks
sorted_by(a, rank) ==
    [k \in DOMAIN a |-> a[CHOOSE i \in DOMAIN a : rank[i] = k - 1]] \o <<>>

\* df.sort_values(by=["lsoa_code", "year"], ascending=ascending)
\*   .reset_index(drop=True)
sort_lsoa_year(d, ascending) ==
    Only({sorted_by(t[1], t[2]) :
             t \in {<<x, lsoa_year_rank(x, ascending)>> : x \in {d}}})

\* the rows of the group of row i that stand before it
EarlierInGroup(d, i, group_col) ==
    {j \in 1 .. i - 1 : d[j][group_col] = d[i][group_col]}

\* the ratio to the row before, whatever its group
pct_change_plus_one_ungrouped(d, i, group_col, val_col) ==
    IF i = 1 THEN NaN ELSE Div(d[i][val_col], d[i - 1][val_col])

\* groupby(group_col)[val_col].pct_change() + 1.0, at row i
pct_change_plus_one(d, i, group_col, val_col) ==
    LET e == EarlierInGroup(d, i, group_col)
    IN  IF e = {} THEN NaN ELSE Div(d[i][val_col], d[MaxOf(e)][val_col])

rate_of_change(ascending, d, group_col, val_col) ==
    Only({Assign(sorted,
                 IF ascending THEN "forward_pct_change"
                 ELSE "backward_pct_change",
                 [i \in DOMAIN sorted |->
                     pct_change_plus_one(sorted, i, group_col, val_col)]) :
             sorted \in {sort_lsoa_year(d, ascending)}})

\* the values of the groups of d
Keys(d, group_col) == {d[i][group_col] : i \in DOMAIN d}

\* groupby(group_col)[col], at the group key
GroupColumn(d, key, group_col, col) ==
    Column(SelectSeq(d, LAMBDA s : s[group_col] = key), col)

\* the position of row i in its group
GroupPos(d, i, group_col) ==
    Cardinality({j \in 1 .. i : d[j][group_col] = d[i][group_col]})

mean(a) == Div(SumSeq(a), FromInt(Len(a)))

\* np.var(a, ddof=ddof), about the mean m of a
var(a, m, ddof) ==
    Only({Div(SumSeq(sq), FromInt(Len(a) - ddof)) :
             sq \in {[k \in DOMAIN a |->
                        Mul(Sub(a[k], m), Sub(a[k], m))] \o <<>>}})

\* the mean and the variance of a
mean_var(a, ddof) == Only({<<m, var(a, m, ddof)>> : m \in {mean(a)}})

\* (x - mean) / std for every x of a; a score dev / sqrt(var) is written
\* as the pair <<dev, var>>
standardise(a, mv) == [k \in DOMAIN a |-> <<Sub(a[k], mv[1]), mv[2]>>] \o <<>>

\* scipy.stats.zscore(a, nan_policy="omit", ddof=ddof)
zscore(a, ddof) ==
    Only({standardise(t[1], t[2]) :
             t \in {<<x, mean_var(SelectSeq(x, notna), ddof)>> : x \in {a}}})

\* the score dev / sqrt(var) is NaN
zscore_isna(z) == isna(z[1]) \/ isna(z[2]) \/ z[2] = Zero

\* |score| > 3.0
gt_3_two_sided(z) ==
    /\ ~zscore_isna(z)
    /\ Gt(Mul(z[1], z[1]), Mul(FromInt(9), z[2]))

\* score > 3.0
gt_3(z) ==
    /\ ~zscore_isna(z)
    /\ Gt(z[1], Zero)
    /\ Gt(Mul(z[1], z[1]), Mul(FromInt(9), z[2]))

\* [col].transform(lambda x: zscore(x, ...)) with no grouping
transform_zscore_ungrouped(d, group_col, col) ==
    zscore(Column(d, col), 1)

\* groupby(group_col)[col].transform(
\*     lambda x: zscore(x, nan_policy="omit", ddof=1))
transform_zscore(d, group_col, col) ==
    Only({[i \in DOMAIN d |->
              zs[d[i][group_col]][GroupPos(d, i, group_col)]] \o <<>> :
             zs \in {[key \in Keys(d, group_col) |->
                        zscore(GroupColumn(d, key, group_col, col), 1)]
                     @@ <<>>}})

\* the columns calc_zscores adds to the row r with the score z
zscore_columns(r, score_prefix, z) ==
    ((score_prefix \o "_zscore") :> z)
        @@ (("z_" \o score_prefix \o "_flag") :> gt_3(z))
        @@ r

calc_zscores(d, score_prefix, group_col, pct_change_col) ==
    Only({[i \in DOMAIN d |->
              zscore_columns(d[i], score_prefix, z[i])] \o <<>> :
             z \in {transform_zscore(d, group_col, pct_change_col)}})

\* the number of elements of a that sort before a[i]
float_rank(a) ==
    [i \in DOMAIN a |->
        Cardinality({j \in DOMAIN a :
                        \/ Lt(a[j], a[i])
                        \/ a[j] = a[i] /\ j < i})] \o <<>>

\* np.sort(a)
sort_floats(a) ==
    Only({sorted_by(t[1], t[2]) : t \in {<<x, float_rank(x)>> : x \in {a}}})

\* the linear interpolation at q between the elements of the sorted v
quantile_sorted(v, q) ==
    LET h == Mul(FromInt(Len(v) - 1), q)
        lo == h[1] \div h[2]
        frac == Sub(h, FromInt(lo))
    IN  IF v = <<>> THEN NaN
        ELSE IF frac = Zero THEN v[lo + 1]
        ELSE Add(v[lo + 1], Mul(frac, Sub(v[lo + 2], v[lo + 1])))

\* Series.quantile(q): over the defined values
quantile(a, q) ==
    Only({quantile_sorted(v, q) : v \in {sort_floats(SelectSeq(a, notna))}})

\* groupby(group_col)[col].transform(lambda x: x.quantile(q))
transform_quantile(d, group_col, col, q) ==
    Only({[i \in DOMAIN d |-> qs[d[i][group_col]]] \o <<>> :
             qs \in {[key \in Keys(d, group_col) |->
                        quantile(GroupColumn(d, key, group_col, col), q)]
                     @@ <<>>}})

lower_bound(q1, iqr) == Sub(q1, Mul(FromInt(3), iqr))

\* the fence of 1.5 interquartile ranges
upper_bound_tukey(q3, iqr) == Add(q3, Mul(Rat(3, 2), iqr))

upper_bound(q3, iqr) == Add(q3, Mul(FromInt(3), iqr))

\* the columns calc_iqr adds to the row r with the quartiles q1 and q3
iqr_columns(r, p, val_col, q1, q3) ==
    LET iqr == Sub(q3, q1)
        lower == lower_bound(q1, iqr)
        upper == upper_bound(q3, iqr)
    IN  ((p \o "_q1") :> q1)
            @@ ((p \o "_q3") :> q3)
            @@ ((p \o "_iqr") :> iqr)
            @@ ((p \o "_lower_bound") :> lower)
            @@ ((p \o "_upper_bound") :> upper)
            @@ (("iqr_" \o p \o "_flag") :>
                    (Lt(r[val_col], lower) \/ Gt(r[val_col], upper)))
            @@ r

calc_iqr(d, iqr_prefix, group_col, val_col) ==
    Only({[i \in DOMAIN d |->
              iqr_columns(d[i], iqr_prefix, val_col, t[1][i], t[2][i])]
              \o <<>> :
             t \in {<<transform_quantile(d, group_col, val_col, Rat(1, 4)),
                      transform_quantile(d, group_col, val_col,
                                         Rat(3, 4))>>}})

\* the calls of the pipeline, in its order: (prefix, column)
ScoreSites ==
    <<[prefix |-> "bkwd", col |-> "backward_pct_change"],
      [prefix |-> "frwd", col |-> "forward_pct_change"],
      [prefix |-> "raw", col |-> "gdhi_annual"]>>

\* the calls of calc_zscores still to make on d
PendingZ(d) ==
    {k \in DOMAIN ScoreSites :
        /\ ScoreSites[k].col \in Columns(d)
        /\ ("z_" \o ScoreSites[k].prefix \o "_flag") \notin Columns(d)}

\* the calls of calc_iqr still to make on d
PendingIqr(d) ==
    {k \in DOMAIN ScoreSites :
        /\ ScoreSites[k].col \in Columns(d)
        /\ ("iqr_" \o ScoreSites[k].prefix \o "_flag") \notin Columns(d)}

Min(S) == CHOOSE m \in S : \A n \in S : m <= n

MaxSeries == 12

MaxIqrLen == 5

BaseValue == 4

SpikeValues == {1, 64}

\* a flat series, and the flat series with one year replaced by a spike
SpikeSeries ==
    UNION {{[k \in 1 .. n |-> BaseValue]}
           \cup {[k \in 1 .. n |-> IF k = at THEN v ELSE BaseValue] :
                    at \in 1 .. n, v \in SpikeValues} :
           n \in 1 .. MaxSeries}

IqrValues == {1, 2, 4, 5, 6}

\* all years but the last in {1, 2} or in {5, 6}, the last year anywhere
IqrSeries ==
    UNION {{x \in [1 .. n -> IqrValues] :
               \/ \A k \in 1 .. n - 1 : x[k] \in {1, 2}
               \/ \A k \in 1 .. n - 1 : x[k] \in {5, 6}} :
           n \in 4 .. MaxIqrLen}

\* pivot_years_long_dataframe: year by year, E1 with the series x and E2
\* flat
LongTable(x) ==
    [i \in 1 .. 2 * Len(x) |->
        LET k == (i + 1) \div 2
        IN  IF i % 2 = 1
            THEN [lsoa_code |-> "E1", year |-> 2000 + k,
                  gdhi_annual |-> FromInt(x[k])]
            ELSE [lsoa_code |-> "E2", year |-> 2000 + k,
                  gdhi_annual |-> FromInt(64)]]

BkwdRow(lsoa, year, tenths, rb) ==
    [lsoa_code |-> lsoa, year |-> year,
     backward_pct_change |-> Rat(tenths, 10), rollback_flag |-> rb]

\* test_calc_zscores: the rows of E1 and E3
ZscoreTestInput ==
    LET x == <<10, -12, 500, 11, 12, 9, -6, 8, -10, 13, -7, 11>>
    IN  [k \in DOMAIN x |-> BkwdRow("E1", 2001 + k, x[k], FALSE)]
            \o <<BkwdRow("E3", 2013, 10, TRUE)>>

\* test_calc_iqr: the rows of E1 and E3
IqrTestInput ==
    LET x == <<10, -12, 100, -9, -6>>
    IN  [k \in DOMAIN x |-> BkwdRow("E1", 2000 + k, x[k], FALSE)]
            \o <<BkwdRow("E3", 2005, 10, TRUE)>>

InitScores ==
    /\ \/ /\ df \in {LongTable(x) : x \in SpikeSeries \cup IqrSeries}
          /\ pc = "long"
       \/ /\ df \in {ZscoreTestInput, IqrTestInput}
          /\ pc = "rates"
    /\ imputed_df = <<>>
    /\ accept_negatives = FALSE
    /\ start_year = 1900
    /\ end_year = 2100
    /\ rollback_year_start = 2010
    /\ rollback_year_end = 2014
    /\ err = NoErr
    /\ output = <<>>

\* "Calculating rate of change": the descending, then the ascending call
RateOfChange ==
    /\ pc = "long"
    /\ \E d1 \in {rate_of_change(FALSE, df, "lsoa_code", "gdhi_annual")} :
           df' = rate_of_change(TRUE, d1, "lsoa_code", "gdhi_annual")
    /\ pc' = "rates"
    /\ UNCHANGED <<imputed_df, err, accept_negatives, start_year, end_year,
                   rollback_year_start, rollback_year_end, output>>

\* df = calc_zscores(df, prefix, "lsoa_code", col), the next call to make
CalcZscores ==
    /\ pc \in {"rates", "zscores"}
    /\ PendingZ(df) # {}
    /\ LET site == ScoreSites[Min(PendingZ(df))]
       IN  df' = calc_zscores(df, site.prefix, "lsoa_code", site.col)
    /\ pc' = "zscores"
    /\ UNCHANGED <<imputed_df, err, accept_negatives, start_year, end_year,
                   rollback_year_start, rollback_year_end, output>>

\* df = calc_iqr(df, prefix, "lsoa_code", col), the next call to make
CalcIqr ==
    /\ pc \in {"zscores", "iqr"}
    /\ PendingZ(df) = {}
    /\ PendingIqr(df) # {}
    /\ LET site == ScoreSites[Min(PendingIqr(df))]
       IN  df' = calc_iqr(df, site.prefix, "lsoa_code", site.col)
    /\ pc' = "iqr"
    /\ UNCHANGED <<imputed_df, err, accept_negatives, start_year, end_year,
                   rollback_year_start, rollback_year_end, output>>

NextScores == RateOfChange \/ CalcZscores \/ CalcIqr

SpecScores == InitScores /\ [][NextScores]_vars

(***************************************************************************)
(* Properties.  The sums, minima and lookups below are stated over the     *)
(* rows of the table directly, not through the operators of the stages.    *)
(***************************************************************************)
Tolerance == Rat(1, 1000000)

GroupsOf(d) == {<<d[i].lad_code, d[i].year>> : i \in DOMAIN d}

InGroup(r, g) == r.lad_code = g[1] /\ r.year = g[2]

GroupOfRow(r) == <<r.lad_code, r.year>>

RECURSIVE SetSum(_, _)
\* the sum of f over the indices S
SetSum(f, S) ==
    IF S = {} THEN Zero
    ELSE LET i == CHOOSE j \in S : TRUE IN Add(f[i], SetSum(f, S \ {i}))

\* the sum of the defined values of column col over the group g of d, as a
\* pandas sum gives it
ColSum(d, g, col) ==
    SetSum(Column(d, col),
           {i \in DOMAIN d : InGroup(d[i], g) /\ notna(d[i][col])})

\* |a - b| <= tol
Within(a, b, tol) == notna(a) /\ notna(b) /\ ~Lt(tol, Abs(Sub(a, b)))

IsOutlier(r) == \E k \in DOMAIN r.year_to_adjust : r.year_to_adjust[k] = r.year

\* the imputed value imputed_df holds for the row r, NaN when it holds none
ImputedOf(r) ==
    LET m == {k \in DOMAIN imputed_df :
                 /\ imputed_df[k].lsoa_code = r.lsoa_code
                 /\ imputed_df[k].year = r.year}
    IN  IF m = {} THEN NaN ELSE imputed_df[CHOOSE k \in m : TRUE].imputed_gdhi

StageColumns ==
    {"adjusted_con_gdhi", "readjusted_con_gdhi", "rollback_con_gdhi"}

\* C1: once apportion_adjustment, apportion_negative_adjustment or
\* apportion_rollback_years has returned, the column it added sums, in every
\* (lad_code, year) group, to the sum of con_gdhi within 1e-6 (sums skip
\* missing values, as the check of the stages does); a stage whose column
\* would differ by more raises and adds no column.
C1_SumsPreserved ==
    \A col \in StageColumns \cap Columns(df) : \A g \in GroupsOf(df) :
        Within(ColSum(df, g, col), ColSum(df, g, "con_gdhi"), Tolerance)

\* all three stages have returned and have changed a value
C1_Witness ==
    /\ pc = "rolled_back"
    /\ \E i \in DOMAIN df :
           /\ notna(df[i].adjusted_con_gdhi)
           /\ df[i].adjusted_con_gdhi # df[i].con_gdhi
           /\ df[i].readjusted_con_gdhi # df[i].adjusted_con_gdhi
           /\ notna(df[i].rollback_con_gdhi)
           /\ df[i].rollback_con_gdhi # df[i].readjusted_con_gdhi

\* C2: a table returned by apportion_negative_adjustment holds no negative
\* readjusted_con_gdhi.
C2_NoNegatives ==
    "readjusted_con_gdhi" \in Columns(df) =>
        \A i \in DOMAIN df : ~Lt(df[i].readjusted_con_gdhi, Zero)

\* the stage returned a table that held a negative apportioned value
C2_Witness ==
    /\ pc = "readjusted"
    /\ \E i \in DOMAIN df : Lt(df[i].adjusted_con_gdhi, Zero)

\* C3: apportion_adjustment sets adjusted_total to lad_total minus the sum of
\* the imputed values of the group, and adjusted_con_gdhi to the imputed
\* value where there is one and to gdhi_proportion x adjusted_total
\* elsewhere; con_gdhi [3, 9, 8] with the third entity imputed to 5 gives
\* [3.75, 11.25, 5], which sums to 20.
C3_Apportioned ==
    "adjusted_con_gdhi" \in Columns(df) =>
        /\ \A i \in DOMAIN df :
               LET r == df[i]
                   members == {j \in DOMAIN df :
                                  /\ InGroup(df[j], GroupOfRow(r))
                                  /\ notna(ImputedOf(df[j]))}
                   imputed_sum == SetSum([j \in DOMAIN df |-> ImputedOf(df[j])],
                                         members)
               IN  /\ r.adjusted_total = Sub(r.lad_total, imputed_sum)
                   /\ r.adjusted_con_gdhi =
                          IF notna(ImputedOf(r)) THEN ImputedOf(r)
                          ELSE Mul(r.gdhi_proportion, r.adjusted_total)
        /\ Column(df, "con_gdhi") = <<FromInt(3), FromInt(9), FromInt(8)>>
             /\ imputed_df = <<ImputedRow("E3", 2002, FromInt(5))>>
           => /\ Column(df, "adjusted_con_gdhi")
                    = <<Rat(15, 4), Rat(45, 4), FromInt(5)>>
              /\ ColSum(df, <<"E01", 2002>>, "adjusted_con_gdhi") = FromInt(20)

\* apportion_adjustment has returned the table of the example
C3_Witness ==
    /\ pc = "apportioned"
    /\ Column(df, "con_gdhi") = <<FromInt(3), FromInt(9), FromInt(8)>>
    /\ Column(df, "imputed_gdhi") = <<NaN, NaN, FromInt(5)>>
    /\ Column(df, "adjusted_total") = <<FromInt(15), FromInt(15), FromInt(15)>>

\* the smallest defined value of column col in the group g, NaN if none
GroupMin(d, g, col) ==
    LET vals == {d[i][col] : i \in {j \in DOMAIN d :
                                       InGroup(d[j], g) /\ notna(d[j][col])}}
    IN  IF vals = {} THEN NaN
        ELSE CHOOSE m \in vals : \A v \in vals : ~Lt(v, m)

\* C4: apportion_negative_adjustment adds to every member of a group the
\* offset |min adjusted_con_gdhi| when that minimum is negative and 0
\* otherwise (over_adjusted_gdhi), and sets readjusted_con_gdhi to
\* over_adjusted_gdhi / (group sum of over_adjusted_gdhi) x lad_total;
\* [-0.5, 5.5, -1, 6] with lad_total 10 becomes [0.5, 6.5, 0, 7], scaled by
\* 10/14.
C4_Renormalised ==
    "readjusted_con_gdhi" \in Columns(df) =>
        /\ \A i \in DOMAIN df :
               LET r == df[i]
                   m == GroupMin(df, GroupOfRow(r), "adjusted_con_gdhi")
                   offset == IF Lt(m, Zero) THEN Neg(m) ELSE Zero
                   total == ColSum(df, GroupOfRow(r), "over_adjusted_gdhi")
               IN  /\ r.over_adjusted_gdhi = Add(r.adjusted_con_gdhi, offset)
                   /\ r.readjusted_con_gdhi =
                          Mul(Div(r.over_adjusted_gdhi, total), r.lad_total)
        /\ /\ Column(df, "adjusted_con_gdhi")
                  = <<Rat(-1, 2), Rat(11, 2), FromInt(-1), FromInt(6)>>
             /\ \A i \in DOMAIN df : df[i].lad_total = FromInt(10)
           => /\ Column(df, "over_adjusted_gdhi")
                    = <<Rat(1, 2), Rat(13, 2), Zero, FromInt(7)>>
              /\ \A i \in DOMAIN df :
                     df[i].readjusted_con_gdhi
                         = Mul(df[i].over_adjusted_gdhi, Rat(10, 14))

\* the stage returned the table of the example
C4_Witness ==
    /\ pc = "readjusted"
    /\ Column(df, "adjusted_con_gdhi")
           = <<Rat(-1, 2), Rat(11, 2), FromInt(-1), FromInt(6)>>
    /\ Column(df, "readjusted_con_gdhi")
           = <<Rat(5, 14), Rat(65, 14), Zero, FromInt(5)>>

\* C5: apportion_negative_adjustment raises, and returns no table, when a
\* (lad_code, year) group has a negative lad_total.
C5_NegativeTotalRaises ==
    "readjusted_con_gdhi" \in Columns(df) =>
        \A i \in DOMAIN df : ~Lt(df[i].lad_total, Zero)

\* the indices of the rows of group g that are not outliers
NonOutliers(d, g) ==
    {i \in DOMAIN d : InGroup(d[i], g) /\ ~IsOutlier(d[i])}

\* the groups whose non-outlier rows sum to zero
ZeroGroups(d) ==
    {g \in GroupsOf(d) :
        /\ NonOutliers(d, g) # {}
        /\ SetSum(Column(d, "con_gdhi"), NonOutliers(d, g)) = Zero}

ZeroTotalMsg == "Non-outlier total check failed"

\* C6: calc_non_outlier_proportions raises, and adds no gdhi_proportion,
\* exactly when the non-outlier total of some group is zero, and its message
\* lists each such (lad_code, year) pair once and no other pair.
C6_ZeroTotalRaises ==
    pc # "loaded" =>
        IF ZeroGroups(df) # {}
        THEN /\ pc = "raised"
             /\ err.type = "ValueError"
             /\ err.msg = ZeroTotalMsg
             /\ "gdhi_proportion" \notin Columns(df)
             /\ {err.groups[k] : k \in DOMAIN err.groups} = ZeroGroups(df)
             /\ Len(err.groups) = Cardinality(ZeroGroups(df))
        ELSE err.msg # ZeroTotalMsg

\* the function raised for one group, which has two non-outlier rows, and
\* the table holds another group whose non-outlier total is not zero
C6_Witness ==
    /\ pc = "raised"
    /\ err.msg = ZeroTotalMsg
    /\ Len(err.groups) = 1
    /\ Cardinality(NonOutliers(df, err.groups[1])) = 2
    /\ \E g \in GroupsOf(df) : g # err.groups[1] /\ NonOutliers(df, g) # {}

\* C7: calc_non_outlier_proportions gives every row the lad_total of its
\* group, every non-outlier row the sum of con_gdhi over the non-outlier rows
\* of its group and the proportion con_gdhi / non_outlier_total, and every
\* outlier row a missing non_outlier_total and gdhi_proportion.
C7_Proportions ==
    "gdhi_proportion" \in Columns(df) =>
        \A i \in DOMAIN df :
            LET r == df[i]
                g == GroupOfRow(r)
                all == {j \in DOMAIN df : InGroup(df[j], g)}
            IN  /\ r.lad_total = SetSum(Column(df, "con_gdhi"), all)
                /\ IF IsOutlier(r)
                   THEN isna(r.non_outlier_total) /\ isna(r.gdhi_proportion)
                   ELSE /\ r.non_outlier_total
                              = SetSum(Column(df, "con_gdhi"), NonOutliers(df, g))
                        /\ r.non_outlier_total # Zero
                        /\ Mul(r.gdhi_proportion, r.non_outlier_total)
                              = r.con_gdhi

\* the function returned a table with a group of an outlier and a
\* non-outlier whose totals differ
C7_Witness ==
    /\ pc = "proportioned"
    /\ \E i, j \in DOMAIN df :
           /\ InGroup(df[j], GroupOfRow(df[i]))
           /\ IsOutlier(df[i]) /\ ~IsOutlier(df[j])
           /\ df[j].non_outlier_total # df[j].lad_total
           /\ df[j].gdhi_proportion = FromInt(1)

\* C8: a flagged row whose imputed value is missing leaves
\* apportion_adjustment with adjusted_con_gdhi equal to its con_gdhi.
C8_UnimputedUnchanged ==
    "adjusted_con_gdhi" \in Columns(df) =>
        \A i \in DOMAIN df :
            IsOutlier(df[i]) /\ isna(ImputedOf(df[i]))
                => df[i].adjusted_con_gdhi = df[i].con_gdhi

\* the rollback-flagged rows of df
RollbackRows == {i \in DOMAIN df : df[i].rollback_flag}

\* the last year that has a rollback-flagged row
LastRollbackYear ==
    CHOOSE y \in {df[i].year : i \in RollbackRows} :
        \A i \in RollbackRows : df[i].year <= y

\* the readjusted_con_gdhi of the entity lsoa in the last rollback year
EntityAtLastRollback(lsoa) ==
    LET m == {i \in DOMAIN df : /\ df[i].lsoa_code = lsoa
                                /\ df[i].year = LastRollbackYear}
    IN  IF m = {} THEN NaN
        ELSE df[CHOOSE i \in m : TRUE].readjusted_con_gdhi

\* the sum of readjusted_con_gdhi over the rows of lad in the last rollback
\* year
LadAtLastRollback(lad) ==
    ColSum(df, <<lad, LastRollbackYear>>, "readjusted_con_gdhi")

\* C13: apportion_rollback_years gives a rollback-flagged row
\* rollback_con_gdhi = lad_total x (its entity's readjusted_con_gdhi at the
\* last rollback year / the sum of readjusted_con_gdhi of its lad_code at
\* that year) and a row that is not flagged its readjusted_con_gdhi; with
\* no flagged row the column equals readjusted_con_gdhi.
C13_RollbackShares ==
    pc = "rolled_back" =>
        /\ \A i \in DOMAIN df :
               df[i].rollback_con_gdhi
                   = IF df[i].rollback_flag
                     THEN Mul(df[i].lad_total,
                              Div(EntityAtLastRollback(df[i].lsoa_code),
                                  LadAtLastRollback(df[i].lad_code)))
                     ELSE df[i].readjusted_con_gdhi
        /\ RollbackRows = {} =>
               Column(df, "rollback_con_gdhi")
                   = Column(df, "readjusted_con_gdhi")

\* a flagged row of a year before the last rollback year has been given a
\* share that differs from its readjusted_con_gdhi
C13_Witness ==
    /\ pc = "rolled_back"
    /\ \E i \in RollbackRows :
           /\ df[i].year < LastRollbackYear
           /\ notna(df[i].rollback_con_gdhi)
           /\ notna(df[i].readjusted_con_gdhi)
           /\ df[i].rollback_con_gdhi # df[i].readjusted_con_gdhi

\* the con_gdhi of the entity lsoa in the year y (a float), NaN if the
\* table has no such row
ValueAt(lsoa, y) ==
    LET m == {i \in DOMAIN df :
                 df[i].lsoa_code = lsoa /\ FromInt(df[i].year) = y}
    IN  IF m = {} THEN NaN ELSE df[CHOOSE i \in m : TRUE].con_gdhi

\* C9: a flagged row whose previous and next safe years both have a value
\* is imputed on the line through (prev_safe_year, prev value) and
\* (next_safe_year, next value); prev (2000, 10), next (2003, 40) and year
\* 2001 give 20.
C9_Interpolated ==
    pc = "imputed" =>
        \A k \in DOMAIN imputed_df :
            LET r == imputed_df[k]
                prev == ValueAt(r.lsoa_code, r.prev_safe_year)
                next == ValueAt(r.lsoa_code, r.next_safe_year)
            IN  notna(prev) /\ notna(next) =>
                    /\ Mul(Sub(r.imputed_gdhi, prev),
                           Sub(r.next_safe_year, r.prev_safe_year))
                          = Mul(Sub(next, prev),
                                Sub(FromInt(r.year), r.prev_safe_year))
                    /\ /\ r.year = 2001
                       /\ r.prev_safe_year = FromInt(2000)
                       /\ r.next_safe_year = FromInt(2003)
                       /\ prev = FromInt(10) /\ next = FromInt(40)
                       => r.imputed_gdhi = FromInt(20)

\* the row of the example has been imputed
C9_Witness ==
    /\ pc = "imputed"
    /\ \E k \in DOMAIN imputed_df :
           LET r == imputed_df[k]
           IN  /\ r.year = 2001
               /\ r.prev_safe_year = FromInt(2000)
               /\ r.prev_con_gdhi = FromInt(10)
               /\ r.next_safe_year = FromInt(2003)
               /\ r.next_con_gdhi = FromInt(40)
               /\ r.imputed_gdhi = FromInt(20)

\* the value extrapolated for the year y from the safe year s with the
\* value v and the reference year ref with the value w
Extrapolated(y, s, v, ref, w) ==
    Add(v, Mul(Div(Sub(w, v), Sub(ref, s)), Sub(FromInt(y), s)))

\* the flagged row r has a value at exactly one of its two safe years
OneSided(r) ==
    isna(ValueAt(r.lsoa_code, r.prev_safe_year))
        # isna(ValueAt(r.lsoa_code, r.next_safe_year))

\* the safe year of a one-sided row that has a value
SafeYear(r) ==
    IF isna(ValueAt(r.lsoa_code, r.prev_safe_year)) THEN r.next_safe_year
    ELSE r.prev_safe_year

\* the year n years beyond that safe year, away from the flagged year
ReferenceYear(r, n) ==
    IF isna(ValueAt(r.lsoa_code, r.prev_safe_year))
    THEN Add(r.next_safe_year, FromInt(n))
    ELSE Sub(r.prev_safe_year, FromInt(n))

\* the row r is extrapolated through its safe year and the year n beyond
\* it, where that year has a value
ExtrapolatedBeyond(r, n) ==
    LET s == SafeYear(r)
        ref == ReferenceYear(r, n)
    IN  notna(ValueAt(r.lsoa_code, ref)) =>
            r.imputed_gdhi
                = Extrapolated(r.year, s, ValueAt(r.lsoa_code, s),
                               ref, ValueAt(r.lsoa_code, ref))

\* C10: a flagged row with a safe year on one side only is extrapolated
\* through that safe year and the reference year 4 years beyond it (away
\* from the flagged year), with the slope between those two years.
C10_FourYearReference ==
    pc = "imputed" =>
        \A k \in DOMAIN imputed_df :
            OneSided(imputed_df[k]) => ExtrapolatedBeyond(imputed_df[k], 4)

\* the year y is in the year_to_adjust list of the row r
Flagged(r, y) == \E k \in DOMAIN r.year_to_adjust : r.year_to_adjust[k] = y

\* y is where a scan from the year of r stops, in steps of dir (-1 or 1)
\* and bounded by limit: every year passed is flagged, and y is not
\* flagged unless it is the first year beyond limit
ScanStopsAt(r, y, dir, limit) ==
    /\ (y - r.year) * dir >= 1
    /\ (y - limit) * dir <= 1
    /\ \A z \in (IF dir = 1 THEN r.year + 1 .. y - 1 ELSE y + 1 .. r.year - 1) :
           Flagged(r, z)
    /\ Flagged(r, y) => y = limit + dir

\* C11: for every flagged row the backward scan stops at the largest year
\* below the row's year that is not in year_to_adjust, and the forward scan
\* at the smallest such year above it, going no further than one step past
\* start_year / end_year; a side whose safe year has no data has an
\* undefined value, and nothing is raised.
C11_SafeYearScan ==
    pc = "imputed" =>
        /\ err = NoErr
        /\ \A k \in DOMAIN imputed_df :
               LET r == imputed_df[k]
               IN  /\ \E y \in start_year - 1 .. r.year - 1 :
                          /\ r.prev_safe_year = FromInt(y)
                          /\ ScanStopsAt(r, y, -1, start_year)
                   /\ \E y \in r.year + 1 .. end_year + 1 :
                          /\ r.next_safe_year = FromInt(y)
                          /\ ScanStopsAt(r, y, 1, end_year)
                   /\ r.prev_con_gdhi = ValueAt(r.lsoa_code, r.prev_safe_year)
                   /\ r.next_con_gdhi = ValueAt(r.lsoa_code, r.next_safe_year)

\* a backward scan has gone one step past start_year and found no data,
\* while the forward scan has skipped a flagged year and found a value
C11_Witness ==
    /\ pc = "imputed"
    /\ \E k \in DOMAIN imputed_df :
           LET r == imputed_df[k]
           IN  /\ r.prev_safe_year = FromInt(start_year - 1)
               /\ isna(r.prev_con_gdhi)
               /\ Gt(r.next_safe_year, FromInt(r.year + 1))
               /\ notna(r.next_con_gdhi)

\* the imputed value of r comes from the forward side alone: it is
\* undefined, or lies on the line through the next safe year and some later
\* year of the series
ForwardOnly(r) ==
    \/ isna(r.imputed_gdhi)
    \/ \E n \in 1 .. NumYears :
           LET ref == Add(r.next_safe_year, FromInt(n))
           IN  /\ notna(ValueAt(r.lsoa_code, ref))
               /\ r.imputed_gdhi
                      = Extrapolated(r.year, r.next_safe_year,
                                     ValueAt(r.lsoa_code, r.next_safe_year),
                                     ref, ValueAt(r.lsoa_code, ref))

\* C12: a flagged row that is rollback-flagged is never interpolated
\* between its previous and its next safe year: its imputed value comes
\* from the forward safe value only, by extrapolation, also when a previous
\* safe year with data exists.
C12_RollbackForwardOnly ==
    pc = "imputed" =>
        \A k \in DOMAIN imputed_df :
            LET r == imputed_df[k]
            IN  /\ r.rollback_flag
                /\ notna(ValueAt(r.lsoa_code, r.prev_safe_year))
                /\ notna(ValueAt(r.lsoa_code, r.next_safe_year))
                => ForwardOnly(r)

\* a forward or backward ratio of the row r is exactly 1.0
RatioIsOne(r) ==
    r.backward_pct_change = <<1, 1>> \/ r.forward_pct_change = <<1, 1>>

\* the row of the entity lsoa in the year y has the rollback flag flag
FlaggedAs(lsoa, y, flag) ==
    \E i \in DOMAIN df : /\ df[i].lsoa_code = lsoa /\ df[i].year = y
                         /\ df[i].rollback_flag = flag

\* C14: with the window [2010, 2014], flag_rollback_years sets
\* rollback_flag exactly on the rows with a forward or backward ratio equal
\* to 1.0 and a year inside the window, boundary years included: ratio-1.0
\* rows at 2010 and 2014 are flagged, those at 2015 and 2001 are not, and a
\* row with both ratios undefined is never flagged.
C14_RollbackWindow ==
    pc = "rollback_flagged" /\ rollback_year_start = 2010
                            /\ rollback_year_end = 2014 =>
        /\ \A i \in DOMAIN df :
               /\ df[i].rollback_flag
                      = /\ RatioIsOne(df[i])
                        /\ rollback_year_start <= df[i].year
                        /\ df[i].year <= rollback_year_end
               /\ RatioIsOne(df[i]) /\ df[i].year \in {2010, 2014}
                      => df[i].rollback_flag
               /\ df[i].year \in {2015, 2001} => ~df[i].rollback_flag
               /\ isna(df[i].backward_pct_change)
                      /\ isna(df[i].forward_pct_change)
                      => ~df[i].rollback_flag

\* the table of the test has been flagged: 2010 and 2014 are, 2015 and 2001
\* are not
C14_Witness ==
    /\ pc = "rollback_flagged"
    /\ rollback_year_start = 2010 /\ rollback_year_end = 2014
    /\ FlaggedAs("E1", 2010, TRUE) /\ FlaggedAs("E1", 2014, TRUE)
    /\ FlaggedAs("E1", 2015, FALSE) /\ FlaggedAs("E2", 2001, FALSE)
    /\ \A i \in DOMAIN df :
           df[i].year \in {2010, 2014, 2015, 2001} => RatioIsOne(df[i])

\* C15: the rollback window is the caller's: once a caller has had the
\* rows flagged with the configured window [rollback_year_start,
\* rollback_year_end], nothing was raised and every ratio-1.0 row is
\* flagged exactly when its year lies in that window.
C15_WindowIsParameter ==
    pc \in {"rollback_flagged", "raised"} =>
        /\ err = NoErr
        /\ \A i \in DOMAIN df :
               RatioIsOne(df[i]) =>
                   df[i].rollback_flag
                       = /\ rollback_year_start <= df[i].year
                         /\ df[i].year <= rollback_year_end

ZFlagCols == {"z_bkwd_flag", "z_frwd_flag", "z_raw_flag"}

IqrFlagCols == {"iqr_bkwd_flag", "iqr_frwd_flag", "iqr_raw_flag"}

\* the columns of cols in which the entity lsoa has a flagged year
ColsWithFlag(lsoa, cols) ==
    {c \in cols : \E j \in DOMAIN df : df[j].lsoa_code = lsoa /\ df[j][c]}

MasterFlagTwo ==
    \A i \in DOMAIN df :
        /\ df[i].master_z_flag
               = (Cardinality(ColsWithFlag(df[i].lsoa_code, ZFlagCols)) >= 2)
        /\ df[i].master_iqr_flag
               = (Cardinality(ColsWithFlag(df[i].lsoa_code, IqrFlagCols))
                      >= 2)
        /\ /\ Cardinality(ColsWithFlag(df[i].lsoa_code, ZFlagCols)) <= 1
           /\ Cardinality(ColsWithFlag(df[i].lsoa_code, IqrFlagCols)) <= 1
           => /\ ~df[i].master_z_flag /\ ~df[i].master_iqr_flag
              /\ ~df[i].master_flag

\* C17: as the tests of create_master_flag assert (of flag_preprocess.py
\* in tests/preprocess/test_flag_preprocess.py, of preprocess.py in
\* tests/test_preprocess.py), an entity is master-z-flagged only when at
\* least two distinct z flag columns have a flagged year and
\* master-iqr-flagged only when at least two distinct IQR flag columns do;
\* an entity whose flags sit in a single z column and a single IQR column
\* has all three master flags false.
C17_MasterFlagTwo ==
    pc \in {"master_flagged", "master_flagged_preprocess_py"}
        => MasterFlagTwo

\* the revision of preprocess.py alone has the threshold of two
PreprocessPyMasterFlagTwo ==
    pc = "master_flagged_preprocess_py" => MasterFlagTwo

ZFlagCol(k) == "z_" \o ScoreSites[k].prefix \o "_flag"

ZScoreCol(k) == ScoreSites[k].prefix \o "_zscore"

\* the calls of calc_zscores already made
ZScored == {k \in DOMAIN ScoreSites : ZFlagCol(k) \in Columns(df)}

\* the rows of the entity of row i with a defined value in col
Sample(i, col) ==
    {j \in DOMAIN df :
        df[j].lsoa_code = df[i].lsoa_code /\ notna(df[j][col])}

SampleMean(i, col) ==
    Div(SetSum(Column(df, col), Sample(i, col)),
        FromInt(Cardinality(Sample(i, col))))

\* the sum over the sample of the squared deviations from its mean
SumSquares(i, col) ==
    LET m == SampleMean(i, col)
    IN  SetSum([j \in DOMAIN df |->
                   Mul(Sub(df[j][col], m), Sub(df[j][col], m))],
               Sample(i, col))

\* the z flag and the score of row i are those of the value x in a sample
\* of n values with mean m and sum of squared deviations ss: the score is
\* (x - m) / sqrt(ss / (n - 1))
ZFlagRight(flag, z, x, n, m, ss) ==
    LET dev == Sub(x, m)
        defined == notna(x) /\ n >= 2 /\ ss # Zero
        above3 == /\ defined
                  /\ Gt(dev, Zero)
                  /\ Gt(Mul(Mul(dev, dev), FromInt(n - 1)),
                        Mul(FromInt(9), ss))
    IN  /\ flag = above3
        /\ zscore_isna(z) = ~defined
        /\ Lt(x, m) => ~flag
        /\ ~defined => ~flag

\* C18: calc_zscores sets the z flag of a row exactly when its score,
\* standardised within the entity with the sample standard deviation
\* (n - 1), is defined and strictly above 3.0; a value below the mean of
\* its group is never flagged, and a group with fewer than two values or
\* with zero variance has undefined scores and no flag.
C18_ZFlag ==
    pc = "zscores" =>
        \A k \in ZScored :
            \A i \in DOMAIN df :
                LET col == ScoreSites[k].col
                IN  ZFlagRight(df[i][ZFlagCol(k)], df[i][ZScoreCol(k)],
                               df[i][col], Cardinality(Sample(i, col)),
                               SampleMean(i, col), SumSquares(i, col))

\* the table of test_calc_zscores: the 50.0 of E1 in 2004 is the one
\* flagged row, and the single row of E3 has no score and no flag
C18_Witness ==
    /\ pc = "zscores"
    /\ \E i \in DOMAIN df :
           /\ df[i].lsoa_code = "E1" /\ df[i].year = 2004
           /\ df[i].backward_pct_change = FromInt(50)
           /\ df[i].z_bkwd_flag
    /\ \A i \in DOMAIN df : df[i].z_bkwd_flag => df[i].year = 2004
    /\ \E i \in DOMAIN df :
           /\ df[i].lsoa_code = "E3"
           /\ Sample(i, "backward_pct_change") = {i}
           /\ zscore_isna(df[i].bkwd_zscore)
           /\ ~df[i].z_bkwd_flag

\* row i holds the one larger value of a series of n values, minlen <= n
\* <= maxlen, that are otherwise all equal
IsSpike(i, col, minlen, maxlen) ==
    LET others == Sample(i, col) \ {i}
    IN  /\ notna(df[i][col])
        /\ Cardinality(Sample(i, col)) \in minlen .. maxlen
        /\ \A j \in others : Lt(df[j][col], df[i][col])
        /\ \A j, l \in others : df[j][col] = df[l][col]

\* C19, as stated: for every series length n >= 3, a series whose values
\* are all equal except for one larger value has the z flag set on that
\* larger value.
C19_SpikeFlagged ==
    \A k \in ZScored :
        \A i \in DOMAIN df :
            IsSpike(i, ScoreSites[k].col, 3, 2 * MaxSeries)
                => df[i][ZFlagCol(k)]

\* C19, amended: the score of the one larger value of an otherwise flat
\* series of n values is (n - 1) / sqrt(n), so the z flag is set on it for
\* every series length n >= 11 and for no series length n <= 10.
C19_SpikeFlaggedFrom11 ==
    \A k \in ZScored :
        \A i \in DOMAIN df :
            /\ IsSpike(i, ScoreSites[k].col, 11, 2 * MaxSeries)
                   => df[i][ZFlagCol(k)]
            /\ IsSpike(i, ScoreSites[k].col, 1, 10)
                   => ~df[i][ZFlagCol(k)]

\* an entity of exactly eleven years, flat but for one larger value, which
\* is flagged
C19_Witness ==
    /\ "z_raw_flag" \in Columns(df)
    /\ \E i \in DOMAIN df :
           /\ IsSpike(i, "gdhi_annual", 11, 11)
           /\ df[i].z_raw_flag
           /\ \A j \in Sample(i, "gdhi_annual") \ {i} : ~df[j].z_raw_flag

IqrFlagCol(k) == "iqr_" \o ScoreSites[k].prefix \o "_flag"

\* the calls of calc_iqr already made
IqrDone == {k \in DOMAIN ScoreSites : IqrFlagCol(k) \in Columns(df)}

\* x is the k-th smallest value of the sample S of column col
IsOrderStat(x, k, S, col) ==
    /\ \E j \in S : df[j][col] = x
    /\ Cardinality({j \in S : Lt(df[j][col], x)}) < k
    /\ k <= Cardinality({j \in S : ~Lt(x, df[j][col])})

OrderStat(k, S, col) ==
    LET j == CHOOSE l \in S : IsOrderStat(df[l][col], k, S, col)
    IN  df[j][col]

\* the percentile at num / 4 of the sample S, linearly interpolated between
\* the order statistics around the position (n - 1) * num / 4
Percentile(num, S, col) ==
    LET n == Cardinality(S)
        lo == ((n - 1) * num) \div 4
        rest == ((n - 1) * num) % 4
    IN  IF n = 0 THEN NaN
        ELSE IF rest = 0 THEN OrderStat(lo + 1, S, col)
        ELSE Add(OrderStat(lo + 1, S, col),
                 Mul(Rat(rest, 4),
                     Sub(OrderStat(lo + 2, S, col),
                         OrderStat(lo + 1, S, col))))

\* the columns of calc_iqr on the row r with value x, for the quartiles q1
\* and q3 of its entity
IqrRight(r, p, x, q1, q3) ==
    LET iqr == Sub(q3, q1)
        lower == Sub(q1, Mul(FromInt(3), iqr))
        upper == Add(q3, Mul(FromInt(3), iqr))
        flag == r["iqr_" \o p \o "_flag"]
    IN  /\ r[p \o "_q1"] = q1
        /\ r[p \o "_q3"] = q3
        /\ r[p \o "_iqr"] = iqr
        /\ r[p \o "_lower_bound"] = lower
        /\ r[p \o "_upper_bound"] = upper
        /\ flag = (Lt(x, lower) \/ Gt(x, upper))
        /\ isna(x) => ~flag
        /\ x = lower \/ x = upper => ~flag
        /\ x = Add(q3, Mul(FromInt(2), iqr)) => ~flag
        /\ x = Add(q3, Mul(FromInt(4), iqr)) /\ Gt(iqr, Zero) => flag

YearBefore(i) ==
    {j \in DOMAIN df :
        /\ df[j].lsoa_code = df[i].lsoa_code
        /\ df[j].year < df[i].year
        /\ \A k \in DOMAIN df :
               (df[k].lsoa_code = df[i].lsoa_code /\ df[k].year < df[i].year)
                   => df[k].year <= df[j].year}

YearAfter(i) ==
    {j \in DOMAIN df :
        /\ df[j].lsoa_code = df[i].lsoa_code
        /\ df[j].year > df[i].year
        /\ \A k \in DOMAIN df :
               (df[k].lsoa_code = df[i].lsoa_code /\ df[k].year > df[i].year)
                   => df[k].year >= df[j].year}

\* value[year] / value[the year of row j], undefined when there is no j
RatioTo(i, J) ==
    IF J = {} THEN {NaN}
    ELSE {Div(df[i].gdhi_annual, df[j].gdhi_annual) : j \in J}

BothRatios == pc = "rates" /\ "gdhi_annual" \in Columns(df)

\* C21: after the descending and the ascending rate_of_change call every
\* row carries forward_pct_change = value / value of the entity's previous
\* year (undefined at its first year) and backward_pct_change = value /
\* value of the entity's next year (undefined at its last year), and the
\* table is sorted ascending by (lsoa_code, year)
C21_BothRatios ==
    BothRatios =>
        /\ \A i \in DOMAIN df :
               /\ "forward_pct_change" \in DOMAIN df[i]
               /\ "backward_pct_change" \in DOMAIN df[i]
               /\ df[i].forward_pct_change \in RatioTo(i, YearBefore(i))
               /\ df[i].backward_pct_change \in RatioTo(i, YearAfter(i))
        /\ \A i \in DOMAIN df : \A j \in DOMAIN df :
               i < j => LsoaYearBefore(df[i], df[j], TRUE)

\* an entity with a year whose two ratios are defined and differ from 1
C21_Witness ==
    /\ BothRatios
    /\ \E i \in DOMAIN df :
           /\ YearBefore(i) # {} /\ YearAfter(i) # {}
           /\ df[i].forward_pct_change \notin {NaN, FromInt(1)}
           /\ df[i].backward_pct_change \notin {NaN, FromInt(1)}
           /\ df[i].forward_pct_change # df[i].backward_pct_change

(***************************************************************************)
(* C22, C23: the table run_adjustment writes out                           *)
(***************************************************************************)
\* the value written out for the entity lsoa in the year y
Exported(wide, lsoa, y) ==
    LET k == CHOOSE j \in DOMAIN wide : wide[j].lsoa_code = lsoa
    IN  wide[k].con_gdhi[y]

\* C22: the value run_adjustment hands to the wide reshaper and writer as
\* the final constrained value is the output of the last apportionment
\* stage, rollback_con_gdhi: for every rollback-flagged row the value
\* written out is the reapportioned one, not the value before the rollback
\* stage.
C22_RollbackValueExported ==
    [][pc = "rolled_back" /\ pc' = "written" =>
          \A i \in DOMAIN df :
              df[i].rollback_flag =>
                  Exported(output', df[i].lsoa_code, df[i].year)
                      = df[i].rollback_con_gdhi]_vars

\* C23: the negative elimination stage runs exactly when accept_negatives
\* is false, and in both configurations the later stages run to the end:
\* every column a stage reads has been produced by an earlier stage of the
\* run, so no stage fails on a missing column, and with accept_negatives
\* true the rollback stage works on adjusted_con_gdhi.
C23_StagesRunToCompletion ==
    /\ "readjusted_con_gdhi" \in Columns(df) => accept_negatives = FALSE
    /\ pc \in {"rolled_back", "written"} /\ accept_negatives = FALSE
           => "readjusted_con_gdhi" \in Columns(df)
    /\ err.type # "KeyError"
    /\ pc = "raised" /\ "adjusted_con_gdhi" \in Columns(df)
           => accept_negatives = FALSE

(***************************************************************************)
(* C24: calc_imputed_val and the form of year_to_adjust                    *)
(***************************************************************************)
\* the years a raw year_to_adjust cell names
YearsOf(raw) ==
    IF raw.kind = "None" THEN {}
    ELSE IF raw.kind = "scalar" THEN {raw.value}
    ELSE {raw.items[k] : k \in DOMAIN raw.items}

Reverse(l) == [k \in DOMAIN l |-> l[Len(l) + 1 - k]]

\* other cells that name the years of the list l: reordered, duplicated,
\* as a tuple, and as a scalar or a missing value where there is one
Variants(l) ==
    {List(Reverse(l)), Tuple(l \o l), List(l \o Reverse(l))}
        \cup (IF Len(l) = 1 THEN {Scalar(l[1])} ELSE {})
        \cup (IF l = <<>> THEN {None} ELSE {})

\* the table d with the cell raw on the rows of the entity lsoa
WithCell(d, lsoa, raw) ==
    [i \in DOMAIN d |->
        IF d[i].lsoa_code = lsoa THEN [d[i] EXCEPT !.year_to_adjust = raw]
        ELSE d[i]]

\* the rows of an imputed table without their year_to_adjust
Imputed(imp) == [k \in DOMAIN imp |-> Drop(imp[k], {"year_to_adjust"})]

\* the cell raw is normalised to the list l
Normalised(raw, l) ==
    /\ raw.kind = "None" => l = <<>>
    /\ raw.kind = "scalar" => l = <<raw.value>>
    /\ raw.kind \in {"list", "tuple"} => l = raw.items
    /\ {l[k] : k \in DOMAIN l} = YearsOf(raw)
    /\ ensure_list(List(l)) = l

\* C24: calc_imputed_val normalises year_to_adjust before any membership
\* test (missing -> empty, scalar -> singleton, list or tuple -> the same
\* elements), normalising again changes nothing, and the flagged rows and
\* their imputed values depend only on the set of years: a cell with the
\* years reordered or duplicated gives the same imputed table.
C24_YearsAsSet ==
    [][pc = "flagged" /\ pc' = "imputed" =>
          /\ \A i \in DOMAIN df :
                 Normalised(df[i].year_to_adjust, df'[i].year_to_adjust)
          /\ {imputed_df'[k].year : k \in DOMAIN imputed_df'}
                 = YearsOf(df[1].year_to_adjust)
                       \cap {df[i].year : i \in DOMAIN df}
          /\ \A v \in Variants(df'[1].year_to_adjust) :
                 Imputed(calc_imputed_val(WithCell(df, "E1", v),
                                          start_year, end_year).imputed_df)
                     = Imputed(imputed_df')]_vars

\* the years of the flagged entity were given out of order or twice, and a
\* value has been imputed
C24_Witness ==
    /\ pc = "imputed"
    /\ df[1].year_to_adjust \in {<<2002, 2001>>, <<2001, 2001>>}
    /\ \E k \in DOMAIN imputed_df : notna(imputed_df[k].imputed_gdhi)

(***************************************************************************)
(* C25: the apportionment stages only add columns                          *)
(***************************************************************************)
\* the rows of d with the (lsoa_code, year) of the row r
RowsOf(d, r) ==
    {j \in DOMAIN d : SameKey(d[j], r, {"lsoa_code", "year"})}

UniqueKeys(d) == \A i \in DOMAIN d : RowsOf(d, d[i]) = {i}

\* a stage has returned
StageReturns ==
    /\ pc \in {"loaded", "proportioned", "apportioned", "readjusted"}
    /\ pc' \in {"proportioned", "apportioned", "readjusted", "rolled_back"}

\* C25: calc_non_outlier_proportions, apportion_adjustment,
\* apportion_negative_adjustment and apportion_rollback_years only add
\* columns: every column of the input has the same value on the row of the
\* same (lsoa_code, year) of the output, and with unique keys the output
\* has exactly one row for each row of the input.
C25_OnlyAddsColumns ==
    [][StageReturns /\ UniqueKeys(df) =>
          /\ Len(df') = Len(df)
          /\ Columns(df) \subseteq Columns(df')
          /\ Columns(df') # Columns(df)
          /\ \A i \in DOMAIN df :
                 /\ Cardinality(RowsOf(df', df[i])) = 1
                 /\ \A j \in RowsOf(df', df[i]) :
                        \A c \in DOMAIN df[i] : df'[j][c] = df[i][c]]_vars

\* all four stages have returned, the third one with two rows reordered
C25_Witness ==
    /\ pc = "rolled_back"
    /\ UniqueKeys(df)
    /\ \E i \in DOMAIN df : \E j \in DOMAIN df :
           /\ i < j
           /\ df[i].lsoa_code = "E2" /\ df[j].lsoa_code = "E1"
           /\ df[i].readjusted_con_gdhi # df[i].adjusted_con_gdhi

(***************************************************************************)
(* C26, C28: apportion_negative_adjustment on groups without negatives and *)
(* on groups that sum to zero                                              *)
(***************************************************************************)
\* the rows of the group g of df
GroupRows(g) == {i \in DOMAIN df : InGroup(df[i], g)}

\* every adjusted_con_gdhi of the group g is defined and not negative, and
\* they sum to the lad_total of the group
NoNegatives(g) ==
    \A i \in GroupRows(g) :
        /\ notna(df[i].adjusted_con_gdhi)
        /\ ~Lt(df[i].adjusted_con_gdhi, Zero)
        /\ ColSum(df, g, "adjusted_con_gdhi") = df[i].lad_total

\* C26: apportion_negative_adjustment is the identity on groups without
\* negatives: for every (lad_code, year) group whose adjusted_con_gdhi are
\* all non-negative and sum to lad_total, abs_adjustment_val is 0 and
\* readjusted_con_gdhi equals adjusted_con_gdhi on every row, and the
\* function gives its own output back unchanged.
C26_IdentityWithoutNegatives ==
    pc = "readjusted" =>
        /\ \A g \in GroupsOf(df) :
               NoNegatives(g) =>
                   \A i \in GroupRows(g) :
                       /\ df[i].abs_adjustment_val = Zero
                       /\ df[i].readjusted_con_gdhi = df[i].adjusted_con_gdhi
        /\ (\A g \in GroupsOf(df) : NoNegatives(g))
               => apportion_negative_adjustment(df)
                      = [df |-> df, err |-> NoErr]

\* C28: when apportion_negative_adjustment returns, every row with a
\* defined adjusted_con_gdhi has a defined readjusted_con_gdhi, also in a
\* group whose adjusted or over-adjusted values sum to zero.
C28_ReadjustedDefined ==
    pc = "readjusted" =>
        \A i \in DOMAIN df :
            notna(df[i].adjusted_con_gdhi)
                => notna(df[i].readjusted_con_gdhi)

(***************************************************************************)
(* C27: the years calc_imputed_val takes its values from                   *)
(***************************************************************************)
\* the year y (a float) is in the year_to_adjust of the row r
FlaggedYear(r, y) ==
    \E k \in DOMAIN r.year_to_adjust : FromInt(r.year_to_adjust[k]) = y

\* the years whose values the imputed value of r is computed from
Anchors(r) ==
    IF isna(r.imputed_gdhi) THEN {}
    ELSE IF OneSided(r) THEN {SafeYear(r), ReferenceYear(r, 1)}
    ELSE {r.prev_safe_year, r.next_safe_year}

\* C27: every year whose value calc_imputed_val uses for an imputed value
\* (the previous safe year, the next safe year, and the additional year of
\* a one-sided extrapolation) is not in the year_to_adjust of the entity.
C27_AnchorsNotFlagged ==
    pc = "imputed" =>
        \A k \in DOMAIN imputed_df :
            \A y \in Anchors(imputed_df[k]) : ~FlaggedYear(imputed_df[k], y)

(***************************************************************************)
(* C29: calc_non_outlier_proportions and groups without non-outlier rows   *)
(***************************************************************************)
\* C29: when calc_non_outlier_proportions returns, every (lad_code, year)
\* group has at least one non-outlier row and a defined, non-zero
\* non_outlier_total on every row: a group whose entities are all outliers
\* in the year is rejected by the guard.
C29_AllOutlierGroupRejected ==
    pc = "proportioned" =>
        \A g \in GroupsOf(df) :
            /\ NonOutliers(df, g) # {}
            /\ \A i \in DOMAIN df :
                   InGroup(df[i], g) /\ ~IsOutlier(df[i])
                       => /\ notna(df[i].non_outlier_total)
                          /\ df[i].non_outlier_total # Zero

(***************************************************************************)
(* C30: apportion_rollback_years and the sums of the groups                *)
(***************************************************************************)
\* every readjusted_con_gdhi is defined and the column sums to lad_total in
\* every group
ReadjustedSumsToTotal ==
    \A i \in DOMAIN df :
        /\ notna(df[i].readjusted_con_gdhi)
        /\ Within(ColSum(df, GroupOfRow(df[i]), "readjusted_con_gdhi"),
                  df[i].lad_total, Tolerance)

\* C30: apportion_rollback_years keeps every (lad_code, year) sum for every
\* pattern of rollback flags: on a table in which readjusted_con_gdhi sums
\* to lad_total in every group it returns without raising, with
\* rollback_con_gdhi summing to lad_total in every group, also when only
\* some entities of a group are rollback-flagged in a year.
C30_RollbackKeepsSums ==
    [][pc = "readjusted" /\ pc' # pc /\ ReadjustedSumsToTotal =>
          /\ pc' = "rolled_back"
          /\ \A i \in DOMAIN df' :
                 Within(ColSum(df', GroupOfRow(df'[i]), "rollback_con_gdhi"),
                        df'[i].lad_total, Tolerance)]_vars

====
